---- MODULE Spec2Model ----
(***************************************************************************)
(* Knowledge-graph page (src/frontend/src/pages/KnowledgeGraph.tsx) and    *)
(* question-answering page (src/frontend/src/pages/SmartQA.tsx, its first  *)
(* component, lines 48-481) of smart-brain as state machines.              *)
(*                                                                         *)
(* The React component's useState cells are the variables.  One action is  *)
(* one event-loop turn: a UI event handler or the continuation of an       *)
(* awaited HTTP request, TOGETHER WITH the render it causes and every      *)
(* useEffect whose dependencies changed (React 18 batches the setState     *)
(* calls of one turn and runs the effects after the commit; an effect that *)
(* sets state causes a further render and effect pass inside the same      *)
(* action).  Requests in flight are the sequence `pending`, in issue       *)
(* order; the network may answer them in any order, each with success or   *)
(* failure.  The backend is not part of src/: its replies follow the       *)
(* interface of spec section 6.                                            *)
(*                                                                         *)
(* Strings are sequences of characters, null / 0 / '' ids are 0.           *)
(***************************************************************************)
EXTENDS Integers, Sequences, FiniteSets, TLC

\* ---------------------------------------------------------------- bounds
\* user-initiated requests are only issued while fewer than this many are in flight
MaxPending == 2
\* the backend hands out subgraph ids 1..MaxSubgraphId
MaxSubgraphId == 3
\* number of graph versions (each successful upload grows the graph by one)
MaxVer == 2
\* at most this many files are staged
MaxFiles == 2
\* a question is submitted only while the conversation, with the question
\* and its answer, stays within this many messages
MaxMessages == 8
\* messages.slice(-5): the number of messages sent as history (SmartQA.tsx line 147)
HistoryWindow == 5

Users == <<1, 2>>
UserIds == {Users[i] : i \in 1..Len(Users)}
FileNames == {"f1"}
\* what the user types into a name field / the text area: blanks (a space and
\* a tab, a line break and a space) or a letter
NameInputs == {<<" ", "\t">>, <<"b">>}
TextInputs == {<<"\n", " ">>, <<"t">>}
\* what the user types into the question box: a space and a line break
\* (Shift+Enter, line 195), or a letter
QuestionInputs == {<<" ", "\n">>, <<"q">>}

VARIABLES
    route,                \* the page the router shows in <Outlet />: "home", "kg", "qa"
    users,                \* useState<UserProfile[]>            (line 24)
    selectedUserId,       \* useState<number|null>, null = 0    (line 25)
    subgraphs,            \* useState<Subgraph[]>               (line 26)
    selectedSubgraphId,   \* useState<number|null>, null = 0    (line 27)
    showCreateSubgraph,   \* line 28
    newSubgraphName,      \* line 29
    showDeleteConfirm,    \* line 31
    showEditSubgraph,     \* line 32
    editSubgraphName,     \* line 33
    files,                \* line 36
    textInput,            \* line 37
    loading,              \* line 38
    uploading,            \* line 39
    graphData,            \* line 40, null = NoGraph
    networkRef,           \* line 43, null = NoNet
    engineSerial,         \* identity of the engine instance constructed last
    mainLive,             \* engine instances constructed in the page's container
                          \* and not destroyed
    pending,              \* HTTP requests in flight, oldest first
    srvSubgraphs,         \* backend: all subgraph records, in creation order
    srvVer,               \* backend: version of each subgraph's graph
    srvNextId,            \* backend: next subgraph id
    ev,                   \* the event-loop turn that produced this state
    \* ---- SmartQA.tsx
    messages,             \* useState<Message[]>               (line 49)
    question,             \* line 55
    isLoading,            \* line 56
    selectedUser,         \* useState<number|null>, null = 0    (line 57)
    userProfiles,         \* line 58
    qaSubgraphs,          \* `subgraphs` of SmartQA             (line 59)
    selectedSubgraphs,    \* useState<number[]>                 (line 60)
    error,                \* line 61
    qaPending,            \* fetch() calls of SmartQA in flight, oldest first
    qaEv,                 \* the turn of SmartQA that produced this state
    showEvidenceGraph,    \* line 64
    evidenceData,         \* line 65
    \* ---- EvidenceGraphModal.tsx
    modalNet,             \* networkRef of the modal (line 17), null = NoNet
    modalSerial,          \* identity of the modal engine constructed last
    modalLive             \* engine instances constructed in the modal's container
                          \* and not destroyed

vars == <<route, users, selectedUserId, subgraphs, selectedSubgraphId, showCreateSubgraph,
          newSubgraphName, showDeleteConfirm, showEditSubgraph, editSubgraphName,
          files, textInput, loading, uploading, graphData, networkRef, engineSerial,
          mainLive, pending, srvSubgraphs, srvVer, srvNextId, ev,
          messages, question, isLoading, selectedUser, userProfiles, qaSubgraphs,
          selectedSubgraphs, error, qaPending, qaEv,
          showEvidenceGraph, evidenceData, modalNet, modalSerial, modalLive>>

\* the state of each page; a turn of one page leaves the other page alone
kgPage == <<users, selectedUserId, subgraphs, selectedSubgraphId, showCreateSubgraph,
            newSubgraphName, showDeleteConfirm, showEditSubgraph, editSubgraphName,
            files, textInput, loading, uploading, graphData, networkRef, engineSerial,
            mainLive, pending, ev>>
\* the evidence view of SmartQA: its two state cells and the modal's engine
modalView == <<showEvidenceGraph, evidenceData, modalNet, modalSerial, modalLive>>
qaPage == <<messages, question, isLoading, selectedUser, userProfiles, qaSubgraphs,
            selectedSubgraphs, error, qaPending, qaEv, modalView>>

uiForm == <<showCreateSubgraph, newSubgraphName, showDeleteConfirm,
            showEditSubgraph, editSubgraphName>>
uiUpload == <<files, textInput, uploading>>
server == <<srvSubgraphs, srvVer, srvNextId>>

\* ---------------------------------------------------------------- helpers
\* the characters String.prototype.trim strips: WhiteSpace and LineTerminator
\* of ECMAScript; a character that has no escape here is written by its code
\* point
IsSpace(c) ==
    c \in {" ", "\t", "\n", "\r", "\f", "U+000B", "U+00A0", "U+1680", "U+2000",
           "U+2001", "U+2002", "U+2003", "U+2004", "U+2005", "U+2006", "U+2007",
           "U+2008", "U+2009", "U+200A", "U+2028", "U+2029", "U+202F", "U+205F",
           "U+3000", "U+FEFF"}

\* String.prototype.trim
RECURSIVE TrimLeft(_)
TrimLeft(s) == IF s # <<>> /\ IsSpace(Head(s)) THEN TrimLeft(Tail(s)) ELSE s
RECURSIVE TrimRight(_)
TrimRight(s) ==
    IF s # <<>> /\ IsSpace(s[Len(s)]) THEN TrimRight(SubSeq(s, 1, Len(s) - 1)) ELSE s
Trim(s) == TrimRight(TrimLeft(s))

\* Array.prototype.filter((_, i) => i !== index)
RemoveAt(s, i) == [j \in 1..(Len(s) - 1) |-> IF j < i THEN s[j] ELSE s[j + 1]]

NoGraph == [nodes |-> <<>>, relationships |-> <<>>, isNull |-> TRUE]
EmptyGraph == [nodes |-> <<>>, relationships |-> <<>>, isNull |-> FALSE]
NoNet == [id |-> 0, nodes |-> <<>>, edges |-> <<>>]

\* ---------------------------------------------------------------- backend
\* graph of subgraph sg at version v: v nodes, v relationships; from version 2
\* on the relationships are parallel (same endpoints, same type)
NodeOf(sg, i) ==
    [id |-> sg * 10 + i,
     label |-> IF i = 1 THEN "Person" ELSE "Thing",
     name |-> IF i = 1 THEN "n" ELSE ""]
RelOf(sg, i) == [from |-> sg * 10 + 1, to |-> sg * 10 + 1, type |-> "knows"]
GraphOf(sg, v) ==
    [nodes |-> [i \in 1..v |-> NodeOf(sg, i)],
     relationships |-> [i \in 1..v |-> RelOf(sg, i)],
     isNull |-> FALSE]

SrvIds == {srvSubgraphs[i].id : i \in 1..Len(srvSubgraphs)}
SrvOwner(sg) == (CHOOSE i \in 1..Len(srvSubgraphs) : srvSubgraphs[i].id = sg)
\* GET /kg/subgraph/list/{userId}
SrvList(u) == SelectSeq(srvSubgraphs, LAMBDA r : r.user_id = u)
\* GET /kg/{userId}?subgraph_id={id}
SrvGraph(u, sg) ==
    IF sg \in SrvIds /\ srvSubgraphs[SrvOwner(sg)].user_id = u
    THEN GraphOf(sg, srvVer[sg])
    ELSE EmptyGraph

\* ---------------------------------------------------------------- requests
Req(kind, u, sg, name, fs, txt) ==
    [kind |-> kind, user |-> u, sg |-> sg, name |-> name, files |-> fs,
     text |-> txt, stale |-> FALSE, cause |-> "", dead |-> FALSE]
NoReq == Req("none", 0, 0, <<>>, <<>>, <<>>)
UsersReq == Req("users", 0, 0, <<>>, <<>>, <<>>)
\* fetchSubgraphs(userId): the request part
\* (cause: the call site, "user" = line 65, "refresh" = line 364, "delete" = line 262)
ListReq(u, cause) == [Req("list", u, 0, <<>>, <<>>, <<>>) EXCEPT !.cause = cause]
\* fetchGraph(userId, subgraphId): the request part
GraphReq(u, sg) == Req("graph", u, sg, <<>>, <<>>, <<>>)

\* the response of request i has arrived: it leaves the sequence, and every
\* request of the same kind that was issued earlier and is still in flight is
\* from now on superseded by a later-issued one that resolved
Answered(i, ok) ==
    LET k == pending[i].kind
        rest == [j \in 1..(Len(pending) - 1) |->
                    IF j < i
                    THEN IF ok /\ pending[j].kind = k
                         THEN [pending[j] EXCEPT !.stale = TRUE]
                         ELSE pending[j]
                    ELSE pending[j + 1]]
    IN rest

\* the requests in flight after their page was left: the browser keeps them
\* going and runs their continuations (no request is aborted on unmount)
Orphaned(reqs) == [j \in 1..Len(reqs) |-> [reqs[j] EXCEPT !.dead = TRUE]]

Event(op, req, issued) == [op |-> op, req |-> req, issued |-> issued, arg |-> <<>>]
Kinds(reqs) == {reqs[i].kind : i \in 1..Len(reqs)}
\* what the turn `op` shows the user through alert(...) (lines 209, 220, 239,
\* 245, 299); "" where the turn shows nothing: a catch block calling
\* console.error only (lines 56, 173, 183, 265) or a handler returning at its
\* first guard (lines 190, 218, 252, 256, 270, 280).  The alerts of a
\* continuation are raised whether or not its page is still mounted.
Alert(op) ==
    CASE op = "createFail" -> "create failed"
      [] op = "uploadRejected" -> "nothing to upload"
      [] op = "orphanCreateFail" -> "create failed"
      [] op = "orphanUploadOk" -> "uploaded"
      [] op = "orphanUploadFail" -> "upload failed"
      [] op = "orphanEditFail" -> "update failed"
      [] op = "uploadOk" -> "uploaded"
      [] op = "uploadFail" -> "upload failed"
      [] op = "editFail" -> "update failed"
      [] OTHER -> ""

\* ---------------------------------------------------------------- effects
\* useEffect(..., [selectedUserId])  (lines 62-67)
UserEffect(u, userChanged) ==
    IF userChanged /\ u # 0 THEN <<ListReq(u, "user")>> ELSE <<>>

\* the effect without its auto-select branch (lines 73-77 missing)
SelectionEffectSelNoAuto(u, s, list, depsChanged) == s

\* useEffect(..., [selectedUserId, selectedSubgraphId, subgraphs])  (lines 69-78):
\* the selection after the effect pass(es) ...
SelectionEffectSel(u, s, list, depsChanged) ==
    IF depsChanged /\ u # 0 /\ s = 0 /\ Len(list) > 0 THEN list[1].id ELSE s
\* the effect's fetches as they would be if auto-select issued none
SelectionEffectReqsNoAuto(u, s, list, depsChanged) ==
    IF ~depsChanged \/ u = 0 THEN <<>>
    ELSE IF s # 0 THEN <<GraphReq(u, s)>>
    ELSE <<>>

\* ... and the graph fetches it issues.  Auto-select sets selectedSubgraphId,
\* which is a dependency: the effect runs a second time and fetches again.
SelectionEffectReqs(u, s, list, depsChanged) ==
    IF ~depsChanged \/ u = 0 THEN <<>>
    ELSE IF s # 0 THEN <<GraphReq(u, s)>>
    ELSE IF Len(list) > 0
         THEN <<GraphReq(u, list[1].id), GraphReq(u, list[1].id)>>
         ELSE <<>>

\* graphData.nodes.map / graphData.relationships.map  (lines 84-100)
RenderNode(n) ==
    [id |-> n.id, label |-> IF n.name # "" THEN n.name ELSE n.label,
     group |-> n.label, shape |-> "dot", size |-> 15]
RenderEdge(r) == [from |-> r.from, to |-> r.to, label |-> r.type, arrows |-> "to"]
RenderNodes(g) == [i \in 1..Len(g.nodes) |-> RenderNode(g.nodes[i])]
RenderEdges(g) == [i \in 1..Len(g.relationships) |-> RenderEdge(g.relationships[i])]

\* a new instance is an object other than the one constructed before it
NextSerial(n) == (n % 2) + 1

\* the cleanup returned by the previous run of useEffect(..., [graphData])
\* (lines 158-163): React runs it before every re-run of the effect
GraphCleanup(net) == NoNet

\* the body of useEffect(..., [graphData]) (lines 81-155), run on `net` as the
\* cleanup left it, with the container mounted
GraphEffectBody(net, g, serial) ==
    IF g.isNull THEN net
    ELSE IF net = NoNet
         THEN [id |-> NextSerial(serial), nodes |-> RenderNodes(g), edges |-> RenderEdges(g)]
         ELSE [net EXCEPT !.nodes = RenderNodes(g), !.edges = RenderEdges(g)]

\* the effect as it would be with graphData missing from its dependency array:
\* it runs on mount only, so an engine once constructed is never given new data
GraphEffectOnMountOnly(net, g, serial) ==
    IF net = NoNet THEN GraphEffectBody(net, g, serial) ELSE net

\* setGraphData(g): render, cleanup of the previous effect run, effect body
GraphEffect(net, g, serial) == GraphEffectBody(GraphCleanup(net), g, serial)

\* the instances live in a container after an effect run that found `net`
\* in the ref, whose cleanup left `cleaned` and whose body left `after`:
\* destroy() releases one, new vis.Network(...) adds one
LiveAfter(live, net, cleaned, after) ==
    (IF net # NoNet /\ cleaned = NoNet THEN live - 1 ELSE live)
    + (IF after # NoNet /\ after.id # cleaned.id THEN 1 ELSE 0)

\* the commit that follows a turn which set graphData to g
SetGraphData(g) ==
    /\ graphData' = g
    /\ networkRef' = GraphEffect(networkRef, g, engineSerial)
    /\ mainLive' = LiveAfter(mainLive, networkRef, GraphCleanup(networkRef), networkRef')
    /\ engineSerial' = IF networkRef'.id # networkRef.id /\ networkRef'.id # 0
                       THEN networkRef'.id ELSE engineSerial

KeepGraphData == UNCHANGED <<graphData, networkRef, engineSerial, mainLive>>

\* the commit that follows a turn `op` (answering `req`) which left
\* selectedUserId = u, selectedSubgraphId = s, subgraphs = list, and which
\* itself issued `first` after taking its request out of `base`
Commit(op, req, u, s, list, userChanged, depsChanged, base, first, setLoadingFalse) ==
    LET issued == first \o UserEffect(u, userChanged)
                        \o SelectionEffectReqs(u, s, list, depsChanged)
    IN /\ selectedUserId' = u
       /\ subgraphs' = list
       /\ selectedSubgraphId' = SelectionEffectSel(u, s, list, depsChanged)
       /\ pending' = base \o issued
       /\ loading' = IF "graph" \in Kinds(issued) THEN TRUE
                     ELSE IF setLoadingFalse THEN FALSE ELSE loading
       /\ ev' = Event(op, req, issued)

\* a turn that changes none of users' selection state and issues nothing
Quiet(op) ==
    /\ ev' = Event(op, NoReq, <<>>)
    /\ UNCHANGED <<selectedUserId, subgraphs, selectedSubgraphId, pending, loading>>

\* a user event is taken only if the requests it issues, effects included,
\* leave at most MaxPending in flight (read after pending' is set)
Room == pending' # pending => Len(pending') <= MaxPending

\* ================================================================ SmartQA: data
\* ---------------------------------------------------------------- messages
\* the greeting the conversation starts with (lines 49-54)
\* `context` of a message that has none (the greeting, every user message,
\* an answer whose response carries no context): undefined
NoContext ==
    [present |-> FALSE, search_strategies |-> FALSE,
     hasNodes |-> FALSE, nodes |-> <<>>, hasRelationships |-> FALSE, relationships |-> <<>>]
\* (its senderName, line 53, is written <<"Assistant">>)
Greeting ==
    [type |-> "ai", content |-> <<"h">>, context |-> NoContext,
     senderName |-> <<"Assistant">>]
\* userMessage of handleSubmit (lines 132-136)
UserMessage(q) ==
    [type |-> "user", content |-> q, context |-> NoContext, senderName |-> <<>>]
\* userProfiles.find(u => u.id === selectedUser)?.name || 'AI助手' (lines 166,
\* 172); the name of user u is written <<"user", u>>
SenderName(profiles, u) ==
    IF \E i \in 1..Len(profiles) : profiles[i] = u THEN <<"user", u>> ELSE <<"AI">>
\* aiMessage of handleSubmit (lines 166-172)
AiMessage(data, sender) ==
    [type |-> "ai", content |-> data.answer, context |-> data.context,
     senderName |-> sender]
\* the answer text of POST /kg/smart-qa/{userId}
SrvAnswer == <<"a">>
\* the `context` values of its responses: none; two nodes with two parallel
\* relationships; relationships only, the `nodes` array absent
SrvContexts ==
    {NoContext,
     [present |-> TRUE, search_strategies |-> TRUE,
      hasNodes |-> TRUE, nodes |-> <<NodeOf(1, 1), NodeOf(1, 2)>>,
      hasRelationships |-> TRUE, relationships |-> <<RelOf(1, 1), RelOf(1, 2)>>],
     [present |-> TRUE, search_strategies |-> TRUE,
      hasNodes |-> FALSE, nodes |-> <<>>,
      hasRelationships |-> TRUE, relationships |-> <<RelOf(2, 1)>>]}
\* the response bodies
SrvResponses == {[answer |-> SrvAnswer, context |-> c] : c \in SrvContexts}
NoResponse == [answer |-> <<>>, context |-> NoContext]

\* the values of `error`: '' and the five messages of lines 93, 96, 108, 127, 178
ErrUsers == "users"
ErrNetwork == "network"
ErrSubgraphs == "subgraphs"
ErrValidation == "validation"
ErrQa == "qa"

\* Array.prototype.slice(-k)
SliceLast(seq, k) ==
    IF Len(seq) <= k THEN seq ELSE SubSeq(seq, Len(seq) - k + 1, Len(seq))

\* Array.prototype.slice(0, k)
SliceFirst(seq, k) == IF Len(seq) <= k THEN seq ELSE SubSeq(seq, 1, k)

\* msg => ({role: msg.type === 'user' ? 'user' : 'assistant', content}) (148-150)
HistoryEntry(msg) ==
    [role |-> IF msg.type = "user" THEN "user" ELSE "assistant", content |-> msg.content]

\* the history as it would be if it took the first messages of the conversation
HistoryOldest(msgs) ==
    LET w == SliceFirst(msgs, HistoryWindow)
    IN [i \in 1..Len(w) |-> HistoryEntry(w[i])]

\* messages.slice(-5).map(...) (lines 147-150)
History(msgs) ==
    LET w == SliceLast(msgs, HistoryWindow)
    IN [i \in 1..Len(w) |-> HistoryEntry(w[i])]

\* ---------------------------------------------------------------- requests
\* stage: "sent" until the response's headers arrive (the `await fetch`),
\* then "ok" or "error" (response.ok) while the body is read (the
\* `await response.json()`)
QaReq(kind, u, sgs, q, hist) ==
    [kind |-> kind, user |-> u, subgraph_ids |-> sgs, query |-> q, history |-> hist,
     stage |-> "sent", dead |-> FALSE]
NoQaReq == QaReq("none", 0, <<>>, <<>>, <<>>)
\* fetch('/api/users/list/all') (line 88)
ProfilesReq == QaReq("profiles", 0, <<>>, <<>>, <<>>)
\* fetch(`/api/kg/subgraph/list/${userId}`) (line 103)
QaListReq(u) == QaReq("list", u, <<>>, <<>>, <<>>)

\* the POST as it would be if it read `question` after setQuestion('')
SmartQaReqClearedInput(u, sgs, q, msgs) == QaReq("qa", u, sgs, <<>>, History(msgs))

\* fetch(`/api/kg/smart-qa/${selectedUser}`, {body: {query, subgraph_ids, history}})
\* (lines 152-162)
SmartQaReq(u, sgs, q, msgs) == QaReq("qa", u, sgs, q, History(msgs))

QaEvent(op, req, issued) ==
    [op |-> op, req |-> req, issued |-> issued, resp |-> NoResponse, arg |-> 0]
QaAnswered(i) == RemoveAt(qaPending, i)
QaRoom == qaPending' # qaPending => Len(qaPending') <= MaxPending

QaProfileIds == {userProfiles[i] : i \in 1..Len(userProfiles)}
QaListIds == {qaSubgraphs[i].id : i \in 1..Len(qaSubgraphs)}
Includes(seq, x) == \E i \in 1..Len(seq) : seq[i] = x
\* selectedSubgraphs.filter(id => id !== subgraphId)
Without(seq, x) == SelectSeq(seq, LAMBDA y : y # x)

\* ---------------------------------------------------------------- Init
\* the subgraphs the backend holds when the page is opened: two of user 1,
\* none of user 2, each with a one-node graph
InitialSubgraphs ==
    <<[id |-> 1, user_id |-> 1, name |-> <<"a">>],
      [id |-> 2, user_id |-> 1, name |-> <<"a">>]>>

Init ==
    /\ route \in {"home", "kg"}
    /\ users = <<>>
    /\ selectedUserId = 0
    /\ subgraphs = <<>>
    /\ selectedSubgraphId = 0
    /\ showCreateSubgraph = FALSE
    /\ newSubgraphName = <<>>
    /\ showDeleteConfirm = FALSE
    /\ showEditSubgraph = FALSE
    /\ editSubgraphName = <<>>
    /\ files = <<>>
    /\ textInput = <<>>
    /\ loading = FALSE
    /\ uploading = FALSE
    /\ graphData = NoGraph
    /\ networkRef = NoNet
    /\ engineSerial = 0
    /\ mainLive = 0
    /\ pending = IF route = "kg" THEN <<UsersReq>> ELSE <<>>
    /\ srvSubgraphs = InitialSubgraphs
    /\ srvVer = [i \in 1..MaxSubgraphId |-> IF i <= Len(InitialSubgraphs) THEN 1 ELSE 0]
    /\ srvNextId = Len(InitialSubgraphs) + 1
    /\ ev = IF route = "kg" THEN Event("mount", NoReq, <<UsersReq>>)
                           ELSE Event("none", NoReq, <<>>)
    /\ messages = <<Greeting>>
    /\ question = <<>>
    /\ isLoading = FALSE
    /\ selectedUser = 0
    /\ userProfiles = <<>>
    /\ qaSubgraphs = <<>>
    /\ selectedSubgraphs = <<>>
    /\ error = ""
    /\ qaPending = <<>>
    /\ qaEv = QaEvent("none", NoQaReq, <<>>)
    /\ showEvidenceGraph = FALSE
    /\ evidenceData = [nodes |-> <<>>, relationships |-> <<>>]
    /\ modalNet = NoNet
    /\ modalSerial = 0
    /\ modalLive = 0


\* ---------------------------------------------------------------- selection
ListIds == {subgraphs[i].id : i \in 1..Len(subgraphs)}
ClientUserIds == {users[i] : i \in 1..Len(users)}

\* fetchUsers resolved (lines 49-54)
FetchUsersOk(i) ==
    /\ pending[i].kind = "users" /\ ~pending[i].dead
    /\ users' = Users
    /\ Commit("usersOk", pending[i],
              IF Len(Users) > 0 THEN Users[1] ELSE selectedUserId,
              selectedSubgraphId, subgraphs,
              Len(Users) > 0 /\ Users[1] # selectedUserId,
              Len(Users) > 0 /\ Users[1] # selectedUserId,
              Answered(i, TRUE), <<>>, FALSE)
    /\ KeepGraphData
    /\ UNCHANGED <<route, qaPage, uiForm, uiUpload, server>>

\* fetchUsers failed (lines 55-57)
FetchUsersFail(i) ==
    /\ pending[i].kind = "users" /\ ~pending[i].dead
    /\ pending' = Answered(i, FALSE)
    /\ ev' = Event("usersFail", pending[i], <<>>)
    /\ KeepGraphData
    /\ UNCHANGED <<route, qaPage, users, selectedUserId, subgraphs, selectedSubgraphId, loading,
                   uiForm, uiUpload, server>>

\* user <select> onChange (lines 321-324)
SelectUser(u) ==
    /\ route = "kg"
    /\ u \in ClientUserIds
    /\ u # selectedUserId
    /\ Commit("selectUser", NoReq, u, selectedSubgraphId, subgraphs, TRUE, TRUE,
              pending, <<>>, FALSE)
    /\ Room
    /\ KeepGraphData
    /\ UNCHANGED <<route, qaPage, users, uiForm, uiUpload, server>>

\* subgraph <select> onChange (lines 332-341); the empty option gives Number('') = 0
SelectSubgraph(s) ==
    /\ route = "kg"
    /\ s \in ListIds \cup {0}
    /\ s # selectedSubgraphId
    /\ Commit("selectSubgraph", NoReq, selectedUserId, s, subgraphs, FALSE, TRUE,
              pending, <<>>, FALSE)
    /\ Room
    /\ KeepGraphData
    /\ UNCHANGED <<route, qaPage, users, uiForm, uiUpload, server>>

\* refresh button onClick (lines 361-369)
Refresh ==
    /\ route = "kg"
    /\ selectedUserId # 0
    /\ Commit("refresh", NoReq, selectedUserId, selectedSubgraphId, subgraphs,
              FALSE, FALSE, pending,
              <<ListReq(selectedUserId, "refresh")>> \o
                  (IF selectedSubgraphId # 0
                   THEN <<GraphReq(selectedUserId, selectedSubgraphId)>> ELSE <<>>),
              FALSE)
    /\ Room
    /\ KeepGraphData
    /\ UNCHANGED <<route, qaPage, users, uiForm, uiUpload, server>>

\* fetchSubgraphs resolved (lines 168-171)
FetchSubgraphsOk(i) ==
    /\ pending[i].kind = "list" /\ ~pending[i].dead
    /\ Commit("listOk", pending[i], selectedUserId, 0, SrvList(pending[i].user),
              FALSE, TRUE, Answered(i, TRUE), <<>>, FALSE)
    /\ KeepGraphData
    /\ UNCHANGED <<route, qaPage, users, uiForm, uiUpload, server>>

\* fetchSubgraphs failed (lines 172-174)
FetchSubgraphsFail(i) ==
    /\ pending[i].kind = "list" /\ ~pending[i].dead
    /\ pending' = Answered(i, FALSE)
    /\ ev' = Event("listFail", pending[i], <<>>)
    /\ KeepGraphData
    /\ UNCHANGED <<route, qaPage, users, selectedUserId, subgraphs, selectedSubgraphId, loading,
                   uiForm, uiUpload, server>>

\* fetchGraph resolved (lines 180-181, 184-186)
FetchGraphOk(i) ==
    /\ pending[i].kind = "graph" /\ ~pending[i].dead
    /\ SetGraphData(SrvGraph(pending[i].user, pending[i].sg))
    /\ loading' = FALSE
    /\ pending' = Answered(i, TRUE)
    /\ ev' = Event("graphOk", pending[i], <<>>)
    /\ UNCHANGED <<route, qaPage, users, selectedUserId, subgraphs, selectedSubgraphId,
                   uiForm, uiUpload, server>>

\* fetchGraph's catch as it would be if it cleared the snapshot
FetchGraphFailClears(i) ==
    /\ pending[i].kind = "graph" /\ ~pending[i].dead
    /\ SetGraphData(EmptyGraph)
    /\ loading' = FALSE
    /\ pending' = Answered(i, FALSE)
    /\ ev' = Event("graphFail", pending[i], <<>>)
    /\ UNCHANGED <<route, qaPage, users, selectedUserId, subgraphs, selectedSubgraphId,
                   uiForm, uiUpload, server>>

\* fetchGraph failed (lines 182-186)
FetchGraphFail(i) ==
    /\ pending[i].kind = "graph" /\ ~pending[i].dead
    /\ loading' = FALSE
    /\ pending' = Answered(i, FALSE)
    /\ ev' = Event("graphFail", pending[i], <<>>)
    /\ KeepGraphData
    /\ UNCHANGED <<route, qaPage, users, selectedUserId, subgraphs, selectedSubgraphId,
                   uiForm, uiUpload, server>>

\* ---------------------------------------------------------------- create
\* The three dialogs are overlays (fixed inset-0, lines 387, 436, 462) drawn
\* over the page.  The page's controls stay rendered and enabled under them
\* and are reached by keyboard, so their handlers run whatever dialog is
\* shown, and a dialog can be opened over another.
\* "+" button onClick (line 344)
OpenCreate ==
    /\ route = "kg"
    /\ showCreateSubgraph' = TRUE
    /\ Quiet("openCreate")
    /\ KeepGraphData
    /\ UNCHANGED <<route, qaPage, users, newSubgraphName, showDeleteConfirm, showEditSubgraph,
                   editSubgraphName, uiUpload, server>>

\* name <input> onChange in the create dialog (line 396)
TypeNewName(n) ==
    /\ route = "kg"
    /\ showCreateSubgraph
    /\ n # newSubgraphName
    /\ newSubgraphName' = n
    /\ Quiet("typeNewName")
    /\ KeepGraphData
    /\ UNCHANGED <<route, qaPage, users, showCreateSubgraph, showDeleteConfirm, showEditSubgraph,
                   editSubgraphName, uiUpload, server>>

\* cancel button of the create dialog (lines 413-417)
CancelCreate ==
    /\ route = "kg"
    /\ showCreateSubgraph
    /\ showCreateSubgraph' = FALSE
    /\ newSubgraphName' = <<>>
    /\ Quiet("cancelCreate")
    /\ KeepGraphData
    /\ UNCHANGED <<route, qaPage, users, showDeleteConfirm, showEditSubgraph, editSubgraphName,
                   uiUpload, server>>

\* create button: disabled={!newSubgraphName.trim()} (line 424)
CreateDisabled == Trim(newSubgraphName) = <<>>

\* createSubgraph as it would be with the name check missing from the button
\* and the handler
CreateSubgraphNoNameCheck ==
    /\ route = "kg"
    /\ showCreateSubgraph
    /\ IF selectedUserId = 0
       THEN /\ ev' = Event("createRejected", NoReq, <<>>)
            /\ UNCHANGED pending
       ELSE /\ pending' = Append(pending,
                    Req("create", selectedUserId, 0, newSubgraphName, <<>>, <<>>))
            /\ ev' = Event("create", NoReq, <<pending'[Len(pending')]>>)
    /\ Room
    /\ KeepGraphData
    /\ UNCHANGED <<route, qaPage, users, selectedUserId, subgraphs, selectedSubgraphId, loading,
                   uiForm, uiUpload, server>>

\* createSubgraph up to its await (lines 189-197), from the create button
CreateSubgraph ==
    /\ route = "kg"
    /\ showCreateSubgraph
    /\ ~CreateDisabled
    /\ IF selectedUserId = 0 \/ Trim(newSubgraphName) = <<>>
       THEN /\ ev' = Event("createRejected", NoReq, <<>>)
            /\ UNCHANGED pending
       ELSE /\ pending' = Append(pending,
                    Req("create", selectedUserId, 0, newSubgraphName, <<>>, <<>>))
            /\ ev' = Event("create", NoReq, <<pending'[Len(pending')]>>)
    /\ Room
    /\ KeepGraphData
    /\ UNCHANGED <<route, qaPage, users, selectedUserId, subgraphs, selectedSubgraphId, loading,
                   uiForm, uiUpload, server>>

\* POST /kg/subgraph answered 2xx; createSubgraph after its await (lines 199-206)
CreateOk(i) ==
    /\ pending[i].kind = "create" /\ ~pending[i].dead
    /\ srvNextId <= MaxSubgraphId
    /\ LET rec == [id |-> srvNextId, user_id |-> pending[i].user,
                   name |-> pending[i].name]
       IN /\ srvSubgraphs' = Append(srvSubgraphs, rec)
          /\ srvNextId' = srvNextId + 1
          /\ Commit("createOk", pending[i], selectedUserId, rec.id,
                    Append(subgraphs, rec), FALSE, TRUE, Answered(i, TRUE), <<>>, FALSE)
    /\ newSubgraphName' = <<>>
    /\ showCreateSubgraph' = FALSE
    /\ KeepGraphData
    /\ UNCHANGED <<route, qaPage, users, showDeleteConfirm, showEditSubgraph, editSubgraphName,
                   uiUpload, srvVer>>

\* createSubgraph's catch as it would be if it reset the selection
CreateFailResets(i) ==
    /\ pending[i].kind = "create" /\ ~pending[i].dead
    /\ Commit("createFail", pending[i], selectedUserId, 0, subgraphs, FALSE, TRUE,
              Answered(i, FALSE), <<>>, FALSE)
    /\ KeepGraphData
    /\ UNCHANGED <<route, qaPage, users, uiForm, uiUpload, server>>

\* createSubgraph's catch (lines 207-210)
CreateFail(i) ==
    /\ pending[i].kind = "create" /\ ~pending[i].dead
    /\ pending' = Answered(i, FALSE)
    /\ ev' = Event("createFail", pending[i], <<>>)
    /\ KeepGraphData
    /\ UNCHANGED <<route, qaPage, users, selectedUserId, subgraphs, selectedSubgraphId, loading,
                   uiForm, uiUpload, server>>

\* ---------------------------------------------------------------- edit
\* handleEditClick (lines 269-277); the button is disabled={!selectedSubgraphId}
HandleEditClick ==
    /\ route = "kg"
    /\ selectedSubgraphId # 0
    /\ IF selectedSubgraphId \in ListIds
       THEN /\ editSubgraphName' =
                 subgraphs[CHOOSE k \in 1..Len(subgraphs) :
                              /\ subgraphs[k].id = selectedSubgraphId
                              /\ \A j \in 1..(k - 1) : subgraphs[j].id # selectedSubgraphId].name
            /\ showEditSubgraph' = TRUE
       ELSE UNCHANGED <<editSubgraphName, showEditSubgraph>>
    /\ Quiet("editClick")
    /\ KeepGraphData
    /\ UNCHANGED <<route, qaPage, users, showCreateSubgraph, newSubgraphName, showDeleteConfirm,
                   uiUpload, server>>

\* name <input> onChange in the edit dialog (line 471)
TypeEditName(n) ==
    /\ route = "kg"
    /\ showEditSubgraph
    /\ n # editSubgraphName
    /\ editSubgraphName' = n
    /\ Quiet("typeEditName")
    /\ KeepGraphData
    /\ UNCHANGED <<route, qaPage, users, showCreateSubgraph, newSubgraphName, showDeleteConfirm,
                   showEditSubgraph, uiUpload, server>>

\* cancel button of the edit dialog (lines 488-492)
CancelEdit ==
    /\ route = "kg"
    /\ showEditSubgraph
    /\ showEditSubgraph' = FALSE
    /\ editSubgraphName' = <<>>
    /\ Quiet("cancelEdit")
    /\ KeepGraphData
    /\ UNCHANGED <<route, qaPage, users, showCreateSubgraph, newSubgraphName, showDeleteConfirm,
                   uiUpload, server>>

\* save button: disabled={!editSubgraphName.trim()} (line 499)
SaveDisabled == Trim(editSubgraphName) = <<>>

\* updateSubgraph up to its await (lines 279-286), from the save button
UpdateSubgraph ==
    /\ route = "kg"
    /\ showEditSubgraph
    /\ ~SaveDisabled
    /\ IF selectedSubgraphId = 0 \/ Trim(editSubgraphName) = <<>>
       THEN /\ ev' = Event("editRejected", NoReq, <<>>)
            /\ UNCHANGED pending
       ELSE /\ pending' = Append(pending,
                    Req("edit", 0, selectedSubgraphId, editSubgraphName, <<>>, <<>>))
            /\ ev' = Event("edit", NoReq, <<pending'[Len(pending')]>>)
    /\ Room
    /\ KeepGraphData
    /\ UNCHANGED <<route, qaPage, users, selectedUserId, subgraphs, selectedSubgraphId, loading,
                   uiForm, uiUpload, server>>

\* prev.map(s => s.id === selectedSubgraphId ? response.data : s) (lines 289-291)
ReplaceById(list, id, rec) ==
    [k \in 1..Len(list) |-> IF list[k].id = id THEN rec ELSE list[k]]

\* PUT /kg/subgraph/{id} answered 2xx; updateSubgraph after its await (lines 288-296)
UpdateOk(i) ==
    /\ pending[i].kind = "edit" /\ ~pending[i].dead
    /\ pending[i].sg \in SrvIds
    /\ LET k == SrvOwner(pending[i].sg)
           rec == [srvSubgraphs[k] EXCEPT !.name = pending[i].name]
       IN /\ srvSubgraphs' = [srvSubgraphs EXCEPT ![k] = rec]
          /\ Commit("editOk", pending[i], selectedUserId, selectedSubgraphId,
                    ReplaceById(subgraphs, pending[i].sg, rec), FALSE, TRUE,
                    Answered(i, TRUE), <<>>, FALSE)
    /\ editSubgraphName' = <<>>
    /\ showEditSubgraph' = FALSE
    /\ KeepGraphData
    /\ UNCHANGED <<route, qaPage, users, showCreateSubgraph, newSubgraphName, showDeleteConfirm,
                   uiUpload, srvVer, srvNextId>>

\* updateSubgraph's catch (lines 297-300)
UpdateFail(i) ==
    /\ pending[i].kind = "edit" /\ ~pending[i].dead
    /\ pending' = Answered(i, FALSE)
    /\ ev' = Event("editFail", pending[i], <<>>)
    /\ KeepGraphData
    /\ UNCHANGED <<route, qaPage, users, selectedUserId, subgraphs, selectedSubgraphId, loading,
                   uiForm, uiUpload, server>>

\* ---------------------------------------------------------------- delete
\* handleDeleteClick (lines 251-254)
HandleDeleteClick ==
    /\ route = "kg"
    /\ showDeleteConfirm' =
           IF selectedUserId = 0 \/ selectedSubgraphId = 0 THEN showDeleteConfirm ELSE TRUE
    /\ Quiet("deleteClick")
    /\ KeepGraphData
    /\ UNCHANGED <<route, qaPage, users, showCreateSubgraph, newSubgraphName, showEditSubgraph,
                   editSubgraphName, uiUpload, server>>

\* cancel button of the delete dialog (line 444)
CancelDelete ==
    /\ route = "kg"
    /\ showDeleteConfirm
    /\ showDeleteConfirm' = FALSE
    /\ Quiet("cancelDelete")
    /\ KeepGraphData
    /\ UNCHANGED <<route, qaPage, users, showCreateSubgraph, newSubgraphName, showEditSubgraph,
                   editSubgraphName, uiUpload, server>>

\* confirmDeleteSubgraph up to its await (lines 256-259), from the confirm button
ConfirmDeleteSubgraph ==
    /\ route = "kg"
    /\ showDeleteConfirm
    /\ IF selectedUserId = 0 \/ selectedSubgraphId = 0
       THEN /\ ev' = Event("deleteRejected", NoReq, <<>>)
            /\ UNCHANGED pending
       ELSE /\ pending' = Append(pending,
                    Req("delete", selectedUserId, selectedSubgraphId, <<>>, <<>>, <<>>))
            /\ ev' = Event("delete", NoReq, <<pending'[Len(pending')]>>)
    /\ Room
    /\ KeepGraphData
    /\ UNCHANGED <<route, qaPage, users, selectedUserId, subgraphs, selectedSubgraphId, loading,
                   uiForm, uiUpload, server>>

\* DELETE /kg/subgraph/{id} answered 2xx; confirmDeleteSubgraph after its await
\* (lines 260-263)
DeleteOk(i) ==
    /\ pending[i].kind = "delete" /\ ~pending[i].dead
    /\ pending[i].sg \in SrvIds
    /\ srvSubgraphs' = SelectSeq(srvSubgraphs, LAMBDA r : r.id # pending[i].sg)
    /\ SetGraphData(EmptyGraph)
    /\ Commit("deleteOk", pending[i], selectedUserId, selectedSubgraphId, subgraphs,
              FALSE, FALSE, Answered(i, TRUE), <<ListReq(pending[i].user, "delete")>>, FALSE)
    /\ showDeleteConfirm' = FALSE
    /\ UNCHANGED <<route, qaPage, users, showCreateSubgraph, newSubgraphName, showEditSubgraph,
                   editSubgraphName, uiUpload, srvVer, srvNextId>>

\* confirmDeleteSubgraph's catch (lines 264-266)
DeleteFail(i) ==
    /\ pending[i].kind = "delete" /\ ~pending[i].dead
    /\ pending' = Answered(i, FALSE)
    /\ ev' = Event("deleteFail", pending[i], <<>>)
    /\ KeepGraphData
    /\ UNCHANGED <<route, qaPage, users, selectedUserId, subgraphs, selectedSubgraphId, loading,
                   uiForm, uiUpload, server>>

\* ---------------------------------------------------------------- upload
\* file <input> onChange (lines 522-527): the chosen files are appended
AddFiles(newFiles) ==
    /\ route = "kg"
    /\ Len(files) + Len(newFiles) <= MaxFiles
    /\ files' = files \o newFiles
    /\ ev' = [Event("addFiles", NoReq, <<>>) EXCEPT !.arg = newFiles]
    /\ UNCHANGED <<selectedUserId, subgraphs, selectedSubgraphId, pending, loading>>
    /\ KeepGraphData
    /\ UNCHANGED <<route, qaPage, users, uiForm, textInput, uploading, server>>

\* removeFile as it would be if it dropped the last staged file
RemoveFileLast(index) ==
    /\ route = "kg"
    /\ index \in 1..Len(files)
    /\ files' = SubSeq(files, 1, Len(files) - 1)
    /\ ev' = [Event("removeFile", NoReq, <<>>) EXCEPT !.arg = <<index>>]
    /\ UNCHANGED <<selectedUserId, subgraphs, selectedSubgraphId, pending, loading>>
    /\ KeepGraphData
    /\ UNCHANGED <<route, qaPage, users, uiForm, textInput, uploading, server>>

\* removeFile (lines 213-215)
RemoveFile(index) ==
    /\ route = "kg"
    /\ index \in 1..Len(files)
    /\ files' = RemoveAt(files, index)
    /\ ev' = [Event("removeFile", NoReq, <<>>) EXCEPT !.arg = <<index>>]
    /\ UNCHANGED <<selectedUserId, subgraphs, selectedSubgraphId, pending, loading>>
    /\ KeepGraphData
    /\ UNCHANGED <<route, qaPage, users, uiForm, textInput, uploading, server>>

\* <textarea> onChange (line 565)
TypeText(t) ==
    /\ route = "kg"
    /\ t # textInput
    /\ textInput' = t
    /\ Quiet("typeText")
    /\ KeepGraphData
    /\ UNCHANGED <<route, qaPage, users, uiForm, files, uploading, server>>

\* upload button: disabled={uploading || !selectedSubgraphId ||
\*                          (files.length === 0 && !textInput.trim())} (line 573)
UploadDisabled ==
    uploading \/ selectedSubgraphId = 0 \/ (Len(files) = 0 /\ Trim(textInput) = <<>>)

\* the guards of handleUpload (lines 218-222): TRUE when it goes on to submit
UploadAccepted ==
    /\ ~(selectedUserId = 0 \/ selectedSubgraphId = 0)
    /\ ~(Len(files) = 0 /\ Trim(textInput) = <<>>)

\* handleUpload with the empty-input check missing from the button and the handler
HandleUploadNoInputCheck ==
    /\ route = "kg"
    /\ ~(uploading \/ selectedSubgraphId = 0)
    /\ IF selectedUserId = 0 \/ selectedSubgraphId = 0
       THEN /\ ev' = Event("uploadIgnored", NoReq, <<>>)
            /\ UNCHANGED <<pending, uploading>>
       ELSE /\ uploading' = TRUE
            /\ pending' = Append(pending,
                    Req("upload", selectedUserId, selectedSubgraphId, <<>>, files, textInput))
            /\ ev' = Event("upload", NoReq, <<pending'[Len(pending')]>>)
    /\ Room
    /\ KeepGraphData
    /\ UNCHANGED <<route, qaPage, users, selectedUserId, subgraphs, selectedSubgraphId, loading,
                   uiForm, files, textInput, server>>

\* handleUpload up to its await (lines 217-238), from the upload button: it
\* returns without a word when no user or no subgraph is selected (line 218),
\* with an alert when there is nothing to upload (lines 219-222)
HandleUpload ==
    /\ route = "kg"
    /\ ~UploadDisabled
    /\ IF selectedUserId = 0 \/ selectedSubgraphId = 0
       THEN /\ ev' = Event("uploadIgnored", NoReq, <<>>)
            /\ UNCHANGED <<pending, uploading>>
       ELSE IF ~UploadAccepted
       THEN /\ ev' = Event("uploadRejected", NoReq, <<>>)
            /\ UNCHANGED <<pending, uploading>>
       ELSE /\ uploading' = TRUE
            /\ pending' = Append(pending,
                    Req("upload", selectedUserId, selectedSubgraphId, <<>>, files, textInput))
            /\ ev' = Event("upload", NoReq, <<pending'[Len(pending')]>>)
    /\ Room
    /\ KeepGraphData
    /\ UNCHANGED <<route, qaPage, users, selectedUserId, subgraphs, selectedSubgraphId, loading,
                   uiForm, files, textInput, server>>

\* handleUpload after its await as it would be if it reloaded the graph of the
\* selection current at that time instead of the target it captured
UploadOkReloadsSelection(i) ==
    /\ pending[i].kind = "upload" /\ ~pending[i].dead
    /\ srvVer' = IF pending[i].sg \in SrvIds /\ srvVer[pending[i].sg] < MaxVer
                 THEN [srvVer EXCEPT ![pending[i].sg] = @ + 1] ELSE srvVer
    /\ Commit("uploadOk", pending[i], selectedUserId, selectedSubgraphId, subgraphs,
              FALSE, FALSE, Answered(i, TRUE),
              <<GraphReq(selectedUserId, selectedSubgraphId)>>, FALSE)
    /\ files' = <<>>
    /\ textInput' = <<>>
    /\ uploading' = FALSE
    /\ KeepGraphData
    /\ UNCHANGED <<route, qaPage, users, uiForm, srvSubgraphs, srvNextId>>

\* POST /kg/upload/{userId} answered 2xx; handleUpload after its await
\* (lines 239-242, 246-248)
UploadOk(i) ==
    /\ pending[i].kind = "upload" /\ ~pending[i].dead
    /\ srvVer' = IF pending[i].sg \in SrvIds /\ srvVer[pending[i].sg] < MaxVer
                 THEN [srvVer EXCEPT ![pending[i].sg] = @ + 1] ELSE srvVer
    /\ Commit("uploadOk", pending[i], selectedUserId, selectedSubgraphId, subgraphs,
              FALSE, FALSE, Answered(i, TRUE),
              <<GraphReq(pending[i].user, pending[i].sg)>>, FALSE)
    /\ files' = <<>>
    /\ textInput' = <<>>
    /\ uploading' = FALSE
    /\ KeepGraphData
    /\ UNCHANGED <<route, qaPage, users, uiForm, srvSubgraphs, srvNextId>>

\* handleUpload's catch as it would be if it cleared the staged input
UploadFailClears(i) ==
    /\ pending[i].kind = "upload" /\ ~pending[i].dead
    /\ uploading' = FALSE
    /\ files' = <<>>
    /\ textInput' = <<>>
    /\ pending' = Answered(i, FALSE)
    /\ ev' = Event("uploadFail", pending[i], <<>>)
    /\ KeepGraphData
    /\ UNCHANGED <<route, qaPage, users, selectedUserId, subgraphs, selectedSubgraphId, loading,
                   uiForm, server>>

\* handleUpload's failure path as it would be without the finally block
UploadFailStaysBusy(i) ==
    /\ pending[i].kind = "upload" /\ ~pending[i].dead
    /\ uploading' = uploading
    /\ pending' = Answered(i, FALSE)
    /\ ev' = Event("uploadFail", pending[i], <<>>)
    /\ KeepGraphData
    /\ UNCHANGED <<route, qaPage, users, selectedUserId, subgraphs, selectedSubgraphId, loading,
                   uiForm, files, textInput, server>>

\* handleUpload's catch and finally (lines 243-248)
UploadFail(i) ==
    /\ pending[i].kind = "upload" /\ ~pending[i].dead
    /\ uploading' = FALSE
    /\ pending' = Answered(i, FALSE)
    /\ ev' = Event("uploadFail", pending[i], <<>>)
    /\ KeepGraphData
    /\ UNCHANGED <<route, qaPage, users, selectedUserId, subgraphs, selectedSubgraphId, loading,
                   uiForm, files, textInput, server>>

\* ================================================================ SmartQA
\* ---------------------------------------------------------------- profiles
\* the continuation of `await fetch(...)` (lines 88-89, 103-104, 152-164): the
\* headers of the response have arrived, response.ok is read and, for a
\* response whose body is read, response.json() is awaited.  No state cell
\* changes.  A profile or subgraph list answered with an HTTP error is not
\* read: it settles in this turn (QaFetchProfilesFail, QaFetchSubgraphsFail).
QaResponseHeaders(i, ok) ==
    /\ ~qaPending[i].dead
    /\ qaPending[i].stage = "sent"
    /\ ok \/ qaPending[i].kind = "qa"
    /\ qaPending' = [qaPending EXCEPT ![i].stage = IF ok THEN "ok" ELSE "error"]
    /\ qaEv' = QaEvent("headers", qaPending[i], <<>>)
    /\ UNCHANGED <<route, kgPage, server, modalView, messages, question, isLoading, selectedUser,
                   userProfiles, qaSubgraphs, selectedSubgraphs, error>>

\* fetchUserProfiles: the body of an ok response (lines 90-91)
QaFetchProfilesOk(i) ==
    /\ qaPending[i].kind = "profiles" /\ ~qaPending[i].dead
    /\ qaPending[i].stage = "ok"
    /\ userProfiles' = Users
    /\ qaPending' = QaAnswered(i)
    /\ qaEv' = QaEvent("profilesOk", qaPending[i], <<>>)
    /\ UNCHANGED <<route, kgPage, server, modalView, messages, question, isLoading, selectedUser,
                   qaSubgraphs, selectedSubgraphs, error>>

\* fetchUserProfiles: HTTP error (line 93), or network error (line 96) of the
\* request or of the body
QaFetchProfilesFail(i, err) ==
    /\ qaPending[i].kind = "profiles" /\ ~qaPending[i].dead
    /\ qaPending[i].stage = "sent" \/ err = ErrNetwork
    /\ error' = err
    /\ qaPending' = QaAnswered(i)
    /\ qaEv' = QaEvent("profilesFail", qaPending[i], <<>>)
    /\ UNCHANGED <<route, kgPage, server, modalView, messages, question, isLoading, selectedUser,
                   userProfiles, qaSubgraphs, selectedSubgraphs>>

\* the user change as it would be if it started a new conversation
QaSelectUserNewChat(u) ==
    /\ route = "qa"
    /\ u \in QaProfileIds
    /\ u # selectedUser
    /\ selectedUser' = u
    /\ selectedSubgraphs' = <<>>
    /\ messages' = <<Greeting>>
    /\ qaPending' = Append(qaPending, QaListReq(u))
    /\ qaEv' = QaEvent("selectUser", NoQaReq, <<QaListReq(u)>>)
    /\ QaRoom
    /\ UNCHANGED <<route, kgPage, server, modalView, question, isLoading, userProfiles,
                   qaSubgraphs, error>>

\* the user change as it would be without setSelectedSubgraphs([])
QaSelectUserKeepsSubgraphs(u) ==
    /\ route = "qa"
    /\ u \in QaProfileIds
    /\ u # selectedUser
    /\ selectedUser' = u
    /\ qaPending' = Append(qaPending, QaListReq(u))
    /\ qaEv' = QaEvent("selectUser", NoQaReq, <<QaListReq(u)>>)
    /\ QaRoom
    /\ UNCHANGED <<route, kgPage, server, modalView, messages, question, isLoading,
                   userProfiles, qaSubgraphs, selectedSubgraphs, error>>

\* profile button onClick (line 241) and useEffect[selectedUser] (lines 79-84)
QaSelectUser(u) ==
    /\ route = "qa"
    /\ u \in QaProfileIds
    /\ u # selectedUser
    /\ selectedUser' = u
    /\ selectedSubgraphs' = <<>>
    /\ qaPending' = Append(qaPending, QaListReq(u))
    /\ qaEv' = QaEvent("selectUser", NoQaReq, <<QaListReq(u)>>)
    /\ QaRoom
    /\ UNCHANGED <<route, kgPage, server, modalView, messages, question, isLoading, userProfiles,
                   qaSubgraphs, error>>

\* fetchSubgraphs: the body of an ok response (lines 105-106)
QaFetchSubgraphsOk(i) ==
    /\ qaPending[i].kind = "list" /\ ~qaPending[i].dead
    /\ qaPending[i].stage = "ok"
    /\ qaSubgraphs' = SrvList(qaPending[i].user)
    /\ qaPending' = QaAnswered(i)
    /\ qaEv' = QaEvent("listOk", qaPending[i], <<>>)
    /\ UNCHANGED <<route, kgPage, server, modalView, messages, question, isLoading, selectedUser,
                   userProfiles, selectedSubgraphs, error>>

\* fetchSubgraphs: HTTP error (line 108), or network error (line 111) of the
\* request or of the body
QaFetchSubgraphsFail(i, err) ==
    /\ qaPending[i].kind = "list" /\ ~qaPending[i].dead
    /\ qaPending[i].stage = "sent" \/ err = ErrNetwork
    /\ error' = err
    /\ qaPending' = QaAnswered(i)
    /\ qaEv' = QaEvent("listFail", qaPending[i], <<>>)
    /\ UNCHANGED <<route, kgPage, server, modalView, messages, question, isLoading, selectedUser,
                   userProfiles, qaSubgraphs, selectedSubgraphs>>

\* handleSubgraphToggle (lines 116-122)
HandleSubgraphToggle(subgraphId) ==
    /\ route = "qa"
    /\ subgraphId \in QaListIds
    /\ selectedSubgraphs' = IF Includes(selectedSubgraphs, subgraphId)
                            THEN Without(selectedSubgraphs, subgraphId)
                            ELSE Append(selectedSubgraphs, subgraphId)
    /\ qaEv' = QaEvent("toggle", NoQaReq, <<>>)
    /\ UNCHANGED <<route, kgPage, server, modalView, messages, question, isLoading, selectedUser,
                   userProfiles, qaSubgraphs, error, qaPending>>

\* the onChange as it would be if editing the question cleared the error
SetQuestionClearsError(q) ==
    /\ route = "qa"
    /\ ~isLoading
    /\ q # question
    /\ question' = q
    /\ error' = ""
    /\ qaEv' = QaEvent("setQuestion", NoQaReq, <<>>)
    /\ UNCHANGED <<route, kgPage, server, modalView, messages, isLoading, selectedUser,
                   userProfiles, qaSubgraphs, selectedSubgraphs, qaPending>>

\* question <textarea> onChange (line 447); disabled={isLoading} (line 451)
SetQuestion(q) ==
    /\ route = "qa"
    /\ ~isLoading
    /\ q # question
    /\ question' = q
    /\ qaEv' = QaEvent("setQuestion", NoQaReq, <<>>)
    /\ UNCHANGED <<route, kgPage, server, modalView, messages, isLoading, selectedUser, userProfiles,
                   qaSubgraphs, selectedSubgraphs, error, qaPending>>

\* ---------------------------------------------------------------- submit
\* the validation as it would be without the test of the selected subgraphs
SubmitInvalidNoSubgraphTest(u, sgs, q) == u = 0 \/ Trim(q) = <<>>

\* !selectedUser || selectedSubgraphs.length === 0 || !question.trim() (line 126)
SubmitInvalid(u, sgs, q) == u = 0 \/ Len(sgs) = 0 \/ Trim(q) = <<>>

\* handleSubmit up to its await (lines 124-162)
HandleSubmitBody ==
    IF SubmitInvalid(selectedUser, selectedSubgraphs, question)
    THEN /\ error' = ErrValidation
         /\ qaEv' = QaEvent("submitRejected", NoQaReq, <<>>)
         /\ UNCHANGED <<messages, question, isLoading, qaPending>>
    ELSE LET req == SmartQaReq(selectedUser, selectedSubgraphs, question, messages)
         IN /\ Len(messages) + 2 <= MaxMessages
            /\ messages' = Append(messages, UserMessage(question))
            /\ isLoading' = TRUE
            /\ error' = ""
            /\ question' = <<>>
            /\ qaPending' = Append(qaPending, req)
            /\ qaEv' = QaEvent("submit", NoQaReq, <<req>>)
            /\ QaRoom

\* submit button: disabled={isLoading || !selectedUser ||
\*     selectedSubgraphs.length === 0 || !question.trim()} (line 459)
SubmitDisabled ==
    isLoading \/ selectedUser = 0 \/ Len(selectedSubgraphs) = 0 \/ Trim(question) = <<>>

\* the form's submit event raised by the submit button (lines 443, 457-459)
SubmitButton ==
    /\ route = "qa"
    /\ ~SubmitDisabled
    /\ HandleSubmitBody
    /\ UNCHANGED <<route, kgPage, server, modalView, selectedUser, userProfiles, qaSubgraphs,
                   selectedSubgraphs>>

\* handleKeyDown with Enter and no Shift (lines 188-196)
HandleKeyDown ==
    /\ route = "qa"
    /\ ~isLoading
    /\ Trim(question) # <<>> /\ selectedUser # 0 /\ Len(selectedSubgraphs) > 0
    /\ HandleSubmitBody
    /\ UNCHANGED <<route, kgPage, server, modalView, selectedUser, userProfiles, qaSubgraphs,
                   selectedSubgraphs>>

\* handleSubmit called for a submit event of the form whatever the state of
\* the button (lines 124-162)
HandleSubmit ==
    /\ route = "qa"
    /\ HandleSubmitBody
    /\ UNCHANGED <<route, kgPage, server, modalView, selectedUser, userProfiles, qaSubgraphs,
                   selectedSubgraphs>>

\* the ok branch as it would be if aiMessage carried no context
SmartQaOkNoContext(i, data) ==
    /\ qaPending[i].kind = "qa" /\ ~qaPending[i].dead
    /\ qaPending[i].stage = "ok"
    /\ messages' = Append(messages, AiMessage([data EXCEPT !.context = NoContext],
                                              SenderName(userProfiles, qaPending[i].user)))
    /\ isLoading' = FALSE
    /\ qaPending' = QaAnswered(i)
    /\ qaEv' = [QaEvent("qaOk", qaPending[i], <<>>) EXCEPT !.resp = data]
    /\ UNCHANGED <<route, kgPage, server, modalView, question, selectedUser, userProfiles,
                   qaSubgraphs, selectedSubgraphs, error>>

\* the ok branch as it would be if it looked the sender up with the user
\* selected when the response arrives
SmartQaOkCurrentSender(i, data) ==
    /\ qaPending[i].kind = "qa" /\ ~qaPending[i].dead
    /\ qaPending[i].stage = "ok"
    /\ messages' = Append(messages, AiMessage(data, SenderName(userProfiles, selectedUser)))
    /\ isLoading' = FALSE
    /\ qaPending' = QaAnswered(i)
    /\ qaEv' = [QaEvent("qaOk", qaPending[i], <<>>) EXCEPT !.resp = data]
    /\ UNCHANGED <<route, kgPage, server, modalView, question, selectedUser, userProfiles,
                   qaSubgraphs, selectedSubgraphs, error>>

\* handleSubmit after `await response.json()` of an ok response (lines
\* 165-175, 183-185).  The
\* sender is looked up with the selectedUser and userProfiles of the render
\* that submitted: the user the request was sent for, and the profile list,
\* which is loaded once, before any user can be selected.
SmartQaOk(i, data) ==
    /\ qaPending[i].kind = "qa" /\ ~qaPending[i].dead
    /\ qaPending[i].stage = "ok"
    /\ messages' = Append(messages, AiMessage(data, SenderName(userProfiles, qaPending[i].user)))
    /\ isLoading' = FALSE
    /\ qaPending' = QaAnswered(i)
    /\ qaEv' = [QaEvent("qaOk", qaPending[i], <<>>) EXCEPT !.resp = data]
    /\ UNCHANGED <<route, kgPage, server, modalView, question, selectedUser, userProfiles, qaSubgraphs,
                   selectedSubgraphs, error>>

\* handleSubmit: the body of an HTTP error has been read (lines 177-178), or
\* the request or the body failed (lines 180-182); then finally (183-185)
SmartQaFail(i, err) ==
    /\ qaPending[i].kind = "qa" /\ ~qaPending[i].dead
    /\ qaPending[i].stage = "error" \/ err = ErrNetwork
    /\ error' = err
    /\ isLoading' = FALSE
    /\ qaPending' = QaAnswered(i)
    /\ qaEv' = QaEvent("qaFail", qaPending[i], <<>>)
    /\ UNCHANGED <<route, kgPage, server, modalView, messages, question, selectedUser, userProfiles,
                   qaSubgraphs, selectedSubgraphs>>

\* ---------------------------------------------------------------- evidence view
\* data.nodes.map / data.relationships.map of the modal (lines 22-40)
ModalRenderNode(n) ==
    [id |-> n.id, label |-> IF n.name # "" THEN n.name ELSE n.label,
     group |-> n.label, shape |-> "dot", size |-> 20,
     title |-> <<"ID", n.id, "Label", n.label>>]
ModalRenderEdge(r) == [from |-> r.from, to |-> r.to, label |-> r.type, arrows |-> "to"]

\* the cleanup as it would be if it left the instance alone
ModalCleanupForgets(net) == net

\* the cleanup returned by every run of the modal's effect (lines 90-95)
ModalCleanup(net) == NoNet

\* a sequence without the repetitions of its elements
RECURSIVE Distinct(_)
Distinct(seq) ==
    IF seq = <<>> THEN <<>>
    ELSE LET r == Distinct(SubSeq(seq, 1, Len(seq) - 1))
         IN IF \E i \in 1..Len(r) : r[i] = seq[Len(seq)] THEN r
            ELSE Append(r, seq[Len(seq)])

\* the effect body as it would be if it dropped repeated relationships
ModalEffectBodyDistinct(isOpen, data, net, serial) ==
    IF isOpen
    THEN [id |-> NextSerial(serial),
          nodes |-> [i \in 1..Len(data.nodes) |-> ModalRenderNode(data.nodes[i])],
          edges |-> Distinct([i \in 1..Len(data.relationships) |->
                                 ModalRenderEdge(data.relationships[i])])]
    ELSE net

\* the effect body as it would be without the test of isOpen and of the
\* container
ModalEffectBodyUnguarded(isOpen, data, net, serial) ==
    [id |-> NextSerial(serial),
     nodes |-> [i \in 1..Len(data.nodes) |-> ModalRenderNode(data.nodes[i])],
     edges |-> [i \in 1..Len(data.relationships) |->
                   ModalRenderEdge(data.relationships[i])]]

\* the body of useEffect(..., [isOpen, data]) (lines 19-88), run on `net` as
\* the cleanup left it.  The container is rendered exactly while isOpen
\* (line 98), and `data` is always an object.
ModalEffectBody(isOpen, data, net, serial) ==
    IF isOpen
    THEN [id |-> NextSerial(serial),
          nodes |-> [i \in 1..Len(data.nodes) |-> ModalRenderNode(data.nodes[i])],
          edges |-> [i \in 1..Len(data.relationships) |->
                        ModalRenderEdge(data.relationships[i])]]
    ELSE net

\* the commit as it would be with `data` missing from the dependency array:
\* the effect runs again only when isOpen changes
SetModalOnOpenOnly(isOpen, data) ==
    /\ showEvidenceGraph' = isOpen
    /\ evidenceData' = data
    /\ modalNet' = IF isOpen = showEvidenceGraph THEN modalNet
                   ELSE ModalEffectBody(isOpen, data, ModalCleanup(modalNet), modalSerial)
    /\ modalSerial' = IF modalNet'.id # 0 THEN modalNet'.id ELSE modalSerial
    /\ modalLive' = IF isOpen = showEvidenceGraph THEN modalLive
                    ELSE LiveAfter(modalLive, modalNet, ModalCleanup(modalNet), modalNet')

\* the commit that follows a turn which set showEvidenceGraph or evidenceData:
\* one of the modal's dependencies changed, so its cleanup and body run
SetModal(isOpen, data) ==
    /\ showEvidenceGraph' = isOpen
    /\ evidenceData' = data
    /\ modalNet' = ModalEffectBody(isOpen, data, ModalCleanup(modalNet), modalSerial)
    /\ modalSerial' = IF modalNet'.id # 0 THEN modalNet'.id ELSE modalSerial
    /\ modalLive' = LiveAfter(modalLive, modalNet, ModalCleanup(modalNet), modalNet')

\* the conditions under which a message shows its evidence button
\* (lines 347 and 367)
EvidenceShown(m) ==
    /\ m.type = "ai"
    /\ m.context.present /\ m.context.search_strategies
    /\ \/ m.context.hasNodes /\ Len(m.context.nodes) > 0
       \/ m.context.hasRelationships /\ Len(m.context.relationships) > 0

\* the evidence button of message k (lines 375-381).  The button stays
\* reachable by keyboard while the modal is shown.
OpenEvidence(k) ==
    /\ route = "qa"
    /\ k \in 1..Len(messages)
    /\ EvidenceShown(messages[k])
    /\ SetModal(TRUE,
                [nodes |-> IF messages[k].context.hasNodes
                           THEN messages[k].context.nodes ELSE <<>>,
                 relationships |-> IF messages[k].context.hasRelationships
                                   THEN messages[k].context.relationships ELSE <<>>])
    /\ qaEv' = [QaEvent("openEvidence", NoQaReq, <<>>) EXCEPT !.arg = k]
    /\ UNCHANGED <<route, kgPage, server, messages, question, isLoading, selectedUser,
                   userProfiles, qaSubgraphs, selectedSubgraphs, error, qaPending>>

\* the modal's close button: onClose (SmartQA line 476, modal line 110)
CloseEvidence ==
    /\ route = "qa"
    /\ showEvidenceGraph
    /\ SetModal(FALSE, evidenceData)
    /\ qaEv' = QaEvent("closeEvidence", NoQaReq, <<>>)
    /\ UNCHANGED <<route, kgPage, server, messages, question, isLoading, selectedUser,
                   userProfiles, qaSubgraphs, selectedSubgraphs, error, qaPending>>

\* ---------------------------------------------------------------- leaving a page
\* The router shows one page at a time.  The back button of a page
\* (navigate('/'), KnowledgeGraph line 310, SmartQA line 205) leaves it for
\* the home page: React unmounts the page, runs the cleanup of every effect
\* and drops the component's state; no request is issued.  The requests in
\* flight are not aborted: their continuations run later on the unmounted
\* instance.  The cells of a page that is not mounted are written with their
\* initial values, the values the next mount starts with.
KgUnmount ==
    /\ route = "kg"
    /\ route' = "home"
    /\ users' = <<>>
    /\ selectedUserId' = 0
    /\ subgraphs' = <<>>
    /\ selectedSubgraphId' = 0
    /\ showCreateSubgraph' = FALSE
    /\ newSubgraphName' = <<>>
    /\ showDeleteConfirm' = FALSE
    /\ showEditSubgraph' = FALSE
    /\ editSubgraphName' = <<>>
    /\ files' = <<>>
    /\ textInput' = <<>>
    /\ loading' = FALSE
    /\ uploading' = FALSE
    /\ graphData' = NoGraph
    /\ networkRef' = GraphEffectBody(GraphCleanup(networkRef), NoGraph, engineSerial)
    /\ mainLive' = LiveAfter(mainLive, networkRef, GraphCleanup(networkRef), networkRef')
    /\ pending' = Orphaned(pending)
    /\ ev' = Event("unmount", NoReq, <<>>)
    /\ UNCHANGED <<qaPage, server, engineSerial>>

\* the home page's link to the knowledge-graph page: the router mounts the
\* page in its initial state and its mount effect calls fetchUsers
\* (lines 46-60)
KgMount ==
    /\ route = "home"
    /\ route' = "kg"
    /\ pending' = Append(pending, UsersReq)
    /\ Room
    /\ ev' = Event("mount", NoReq, <<UsersReq>>)
    /\ KeepGraphData
    /\ UNCHANGED <<qaPage, users, selectedUserId, subgraphs, selectedSubgraphId, loading,
                   uiForm, uiUpload, server>>

\* what the continuation of an orphaned request shows: its alerts
OrphanOp(kind, ok) ==
    CASE kind = "create" /\ ~ok -> "orphanCreateFail"
      [] kind = "edit" /\ ~ok -> "orphanEditFail"
      [] kind = "upload" /\ ok -> "orphanUploadOk"
      [] kind = "upload" /\ ~ok -> "orphanUploadFail"
      [] OTHER -> "orphan"

\* the continuation of a request whose page instance is unmounted: the
\* backend has done what was asked, the setState calls change nothing, the
\* alerts are raised (lines 209, 239, 245, 299) and the requests the
\* continuation issues are sent: fetchSubgraphs after a delete (line 262),
\* fetchGraph after an upload (line 240)
KgOrphanSettles(i, ok) ==
    /\ pending[i].dead
    /\ LET r == pending[i]
           k == r.kind
           issued == IF ~ok THEN <<>>
                     ELSE IF k = "delete" THEN Orphaned(<<ListReq(r.user, "delete")>>)
                     ELSE IF k = "upload" THEN Orphaned(<<GraphReq(r.user, r.sg)>>)
                     ELSE <<>>
       IN /\ (ok /\ k = "create") => srvNextId <= MaxSubgraphId
          /\ (ok /\ k \in {"edit", "delete"}) => r.sg \in SrvIds
          /\ srvSubgraphs' =
                IF ok /\ k = "create"
                THEN Append(srvSubgraphs,
                            [id |-> srvNextId, user_id |-> r.user, name |-> r.name])
                ELSE IF ok /\ k = "edit"
                THEN [srvSubgraphs EXCEPT ![SrvOwner(r.sg)].name = r.name]
                ELSE IF ok /\ k = "delete"
                THEN SelectSeq(srvSubgraphs, LAMBDA x : x.id # r.sg)
                ELSE srvSubgraphs
          /\ srvNextId' = IF ok /\ k = "create" THEN srvNextId + 1 ELSE srvNextId
          /\ srvVer' = IF ok /\ k = "upload" /\ r.sg \in SrvIds /\ srvVer[r.sg] < MaxVer
                       THEN [srvVer EXCEPT ![r.sg] = @ + 1] ELSE srvVer
          /\ pending' = RemoveAt(pending, i) \o issued
          /\ ev' = Event(OrphanOp(k, ok), r, issued)
    /\ KeepGraphData
    /\ UNCHANGED <<route, qaPage, users, selectedUserId, subgraphs, selectedSubgraphId, loading,
                   uiForm, uiUpload>>

\* the back button of SmartQA (line 205): the page is unmounted, the modal
\* with it
QaUnmount ==
    /\ route = "qa"
    /\ route' = "home"
    /\ messages' = <<Greeting>>
    /\ question' = <<>>
    /\ isLoading' = FALSE
    /\ selectedUser' = 0
    /\ userProfiles' = <<>>
    /\ qaSubgraphs' = <<>>
    /\ selectedSubgraphs' = <<>>
    /\ error' = ""
    /\ qaPending' = Orphaned(qaPending)
    /\ qaEv' = QaEvent("unmount", NoQaReq, <<>>)
    /\ SetModal(FALSE, [nodes |-> <<>>, relationships |-> <<>>])
    /\ UNCHANGED <<kgPage, server>>

\* The home page's link to the question page (<Link to="/smart-qa">).  The
\* routes of App name no element for that path, so the route that shows
\* SmartQA is written here as the specification has it: the question
\* session is a page of the application like the knowledge-graph page
\* (sections 1, 2, 4.5 and 8).  The router mounts the page in its initial
\* state and its mount effect calls fetchUserProfiles (lines 74-77).
QaMount ==
    /\ route = "home"
    /\ route' = "qa"
    /\ qaPending' = Append(qaPending, ProfilesReq)
    /\ QaRoom
    /\ qaEv' = QaEvent("mount", NoQaReq, <<ProfilesReq>>)
    /\ UNCHANGED <<kgPage, server, modalView, messages, question, isLoading, selectedUser,
                   userProfiles, qaSubgraphs, selectedSubgraphs, error>>

\* a turn of a request whose SmartQA instance is unmounted: the headers
\* arrive and the body is awaited (last = FALSE), or the continuation ends;
\* its setState calls change nothing and it issues nothing
QaOrphanSettles(i, last) ==
    /\ qaPending[i].dead
    /\ IF last
       THEN qaPending' = QaAnswered(i)
       ELSE /\ qaPending[i].stage = "sent"
            /\ \E st \in {"ok"} \cup (IF qaPending[i].kind = "qa" THEN {"error"} ELSE {}) :
                   qaPending' = [qaPending EXCEPT ![i].stage = st]
    /\ qaEv' = QaEvent("orphan", qaPending[i], <<>>)
    /\ UNCHANGED <<route, kgPage, server, modalView, messages, question, isLoading, selectedUser,
                   userProfiles, qaSubgraphs, selectedSubgraphs, error>>

\* ---------------------------------------------------------------- Next
\* the selections of the file dialog: non-empty lists of files
FileChoices == {<<f>> : f \in FileNames} \cup {<<f, g>> : f \in FileNames, g \in FileNames}

\* selection, refresh and the read requests
Browse ==
    \/ \E u \in UserIds : SelectUser(u)
    \/ \E s \in 0..MaxSubgraphId : SelectSubgraph(s)
    \/ Refresh
    \/ \E i \in 1..Len(pending) :
        \/ FetchUsersOk(i)
        \/ FetchUsersFail(i)
        \/ FetchSubgraphsOk(i)
        \/ FetchSubgraphsFail(i)
        \/ FetchGraphOk(i)
        \/ FetchGraphFail(i)

Creating ==
    \/ OpenCreate
    \/ \E n \in NameInputs : TypeNewName(n)
    \/ CancelCreate
    \/ CreateSubgraph
    \/ \E i \in 1..Len(pending) : CreateOk(i) \/ CreateFail(i)

Editing ==
    \/ HandleEditClick
    \/ \E n \in NameInputs : TypeEditName(n)
    \/ CancelEdit
    \/ UpdateSubgraph
    \/ \E i \in 1..Len(pending) : UpdateOk(i) \/ UpdateFail(i)

Deleting ==
    \/ HandleDeleteClick
    \/ CancelDelete
    \/ ConfirmDeleteSubgraph
    \/ \E i \in 1..Len(pending) : DeleteOk(i) \/ DeleteFail(i)

Uploading ==
    \/ \E fs \in FileChoices : AddFiles(fs)
    \/ \E k \in 1..MaxFiles : RemoveFile(k)
    \/ \E t \in TextInputs : TypeText(t)
    \/ HandleUpload
    \/ \E i \in 1..Len(pending) : UploadOk(i) \/ UploadFail(i)

\* the answers to the read requests
Answers ==
    \E i \in 1..Len(pending) :
        \/ FetchUsersOk(i)
        \/ FetchUsersFail(i)
        \/ FetchSubgraphsOk(i)
        \/ FetchSubgraphsFail(i)
        \/ FetchGraphOk(i)
        \/ FetchGraphFail(i)

\* ---------------------------------------------------------------- specifications
\* the whole page
Next == Browse \/ Creating \/ Editing \/ Deleting \/ Uploading
Spec == Init /\ [][Next]_vars

\* The page is explored one feature at a time: each specification below is
\* the page used by someone who browses and uses one group of controls.
NextBrowse == Browse
SpecBrowse == Init /\ [][NextBrowse]_vars
NextCreate == Browse \/ Creating
SpecCreate == Init /\ [][NextCreate]_vars
NextEdit == Browse \/ Editing
SpecEdit == Init /\ [][NextEdit]_vars
NextDelete == Browse \/ Deleting
SpecDelete == Init /\ [][NextDelete]_vars
\* uploads into the subgraph the page selects by itself
NextUpload == Answers \/ Uploading
SpecUpload == Init /\ [][NextUpload]_vars
\* create, edit and delete together, the selection left to the page itself
\* and every delete request rejected by the backend
NextCrud ==
    \/ Answers
    \/ Creating
    \/ Editing
    \/ HandleDeleteClick
    \/ CancelDelete
    \/ ConfirmDeleteSubgraph
    \/ \E i \in 1..Len(pending) : DeleteFail(i)
SpecCrud == Init /\ [][NextCrud]_vars
\* staging and uploading while the subgraph selection is changed by hand
NextUploadSelect ==
    \/ Answers
    \/ \E s \in 0..MaxSubgraphId : SelectSubgraph(s)
    \/ \E fs \in FileChoices : AddFiles(fs)
    \/ \E k \in 1..MaxFiles : RemoveFile(k)
    \/ \E t \in TextInputs : TypeText(t)
    \/ HandleUpload
    \/ \E i \in 1..Len(pending) : UploadOk(i) \/ UploadFail(i)
SpecUploadSelect == Init /\ [][NextUploadSelect]_vars
\* staging only: files of two names chosen one or two at a time, unstaged,
\* and the text edited, while the page loads
StagingChoices ==
    {<<f>> : f \in {"f1", "f2"}} \cup {<<f, g>> : f \in {"f1", "f2"}, g \in {"f1", "f2"}}
NextStaging ==
    \/ Answers
    \/ \E fs \in StagingChoices : AddFiles(fs)
    \/ \E k \in 1..MaxFiles : RemoveFile(k)
    \/ \E t \in TextInputs : TypeText(t)
SpecStaging == Init /\ [][NextStaging]_vars

\* the question-answering page used through its controls
Asking ==
    \/ QaMount
    \/ \E u \in UserIds : QaSelectUser(u)
    \/ \E sg \in 1..MaxSubgraphId : HandleSubgraphToggle(sg)
    \/ \E q \in QuestionInputs : SetQuestion(q)
    \/ SubmitButton
    \/ HandleKeyDown
    \/ \E i \in 1..Len(qaPending) :
        \/ \E ok \in BOOLEAN : QaResponseHeaders(i, ok)
        \/ QaFetchProfilesOk(i)
        \/ \E err \in {ErrUsers, ErrNetwork} : QaFetchProfilesFail(i, err)
        \/ QaFetchSubgraphsOk(i)
        \/ \E err \in {ErrSubgraphs, ErrNetwork} : QaFetchSubgraphsFail(i, err)
        \/ \E data \in SrvResponses : SmartQaOk(i, data)
        \/ \E err \in {ErrQa, ErrNetwork} : SmartQaFail(i, err)
NextQA == Asking
SpecQA == Init /\ [][NextQA]_vars
\* a conversation: the profile and subgraph lists load, the user picks a
\* profile and subgraphs, asks, and the question is answered or fails
Talking ==
    \/ QaMount
    \/ \E u \in UserIds : QaSelectUser(u)
    \/ \E sg \in 1..MaxSubgraphId : HandleSubgraphToggle(sg)
    \/ \E q \in QuestionInputs : SetQuestion(q)
    \/ SubmitButton
    \/ HandleKeyDown
    \/ \E i \in 1..Len(qaPending) :
        \/ \E ok \in BOOLEAN : QaResponseHeaders(i, ok)
        \/ QaFetchProfilesOk(i)
        \/ QaFetchSubgraphsOk(i)
        \/ SmartQaOk(i, [answer |-> SrvAnswer, context |-> NoContext])
        \/ \E err \in {ErrQa, ErrNetwork} : SmartQaFail(i, err)
NextTalk == Talking
SpecTalk == Init /\ [][NextTalk]_vars
\* ... and with submit events that do not come from the enabled button
NextTalkHandler == Talking \/ HandleSubmit
SpecTalkHandler == Init /\ [][NextTalkHandler]_vars
\* a conversation of the first user about the first subgraph with its
\* evidence views
Evidencing ==
    \/ QaMount
    \/ QaSelectUser(Users[1])
    \/ HandleSubgraphToggle(1)
    \/ \E q \in QuestionInputs : SetQuestion(q)
    \/ SubmitButton
    \/ \E k \in 1..MaxMessages : OpenEvidence(k)
    \/ CloseEvidence
    \/ \E i \in 1..Len(qaPending) :
        \/ \E ok \in BOOLEAN : QaResponseHeaders(i, ok)
        \/ QaFetchProfilesOk(i)
        \/ QaFetchSubgraphsOk(i)
        \/ \E data \in SrvResponses : SmartQaOk(i, data)
        \/ \E err \in {ErrQa, ErrNetwork} : SmartQaFail(i, err)
NextEvidence == Evidencing
SpecEvidence == Init /\ [][NextEvidence]_vars
\* a conversation about the first subgraph in which the user is changed and
\* every answer carries nodes and relationships as evidence
NextHistory ==
    \/ QaMount
    \/ \E u \in UserIds : QaSelectUser(u)
    \/ HandleSubgraphToggle(1)
    \/ SetQuestion(<<"q">>)
    \/ SubmitButton
    \/ \E k \in 1..MaxMessages : OpenEvidence(k)
    \/ CloseEvidence
    \/ \E i \in 1..Len(qaPending) :
        \/ \E ok \in BOOLEAN : QaResponseHeaders(i, ok)
        \/ QaFetchProfilesOk(i)
        \/ QaFetchSubgraphsOk(i)
        \/ \E data \in {d \in SrvResponses : d.context.hasNodes} : SmartQaOk(i, data)
        \/ SmartQaFail(i, ErrQa)
SpecHistory == Init /\ [][NextHistory]_vars
\* ... and with the loads of the profile and subgraph lists failing too
NextEvidenceFail ==
    \/ Evidencing
    \/ \E i \in 1..Len(qaPending) :
        \/ \E err \in {ErrUsers, ErrNetwork} : QaFetchProfilesFail(i, err)
        \/ \E err \in {ErrSubgraphs, ErrNetwork} : QaFetchSubgraphsFail(i, err)
SpecEvidenceFail == Init /\ [][NextEvidenceFail]_vars
\* the continuations of the requests a left page had in flight
KgOrphans ==
    \E i \in 1..Len(pending) : \E ok \in BOOLEAN : KgOrphanSettles(i, ok)
QaOrphans ==
    \E i \in 1..Len(qaPending) : \E last \in BOOLEAN : QaOrphanSettles(i, last)
Orphans == KgOrphans \/ QaOrphans
\* the knowledge-graph page loads and uploads text
TextUploading ==
    \/ \E i \in 1..Len(pending) : FetchUsersOk(i) \/ FetchSubgraphsOk(i) \/ FetchGraphOk(i)
    \/ TypeText(<<"t">>)
    \/ HandleUpload
\* the question page is opened and the first user asks about the first
\* subgraph
FirstUserAsking ==
    \/ QaMount
    \/ QaSelectUser(Users[1])
    \/ HandleSubgraphToggle(1)
    \/ SetQuestion(<<"q">>)
    \/ SubmitButton
    \/ \E i \in 1..Len(qaPending) :
        \/ QaResponseHeaders(i, TRUE)
        \/ QaFetchProfilesOk(i)
        \/ QaFetchSubgraphsOk(i)
\* Both pages, each used on its own: the knowledge-graph page loads and
\* uploads text; the question page is opened, the first user asks about the
\* first subgraph and views the evidence.
NextViews ==
    \/ TextUploading
    \/ \E i \in 1..Len(pending) : UploadOk(i)
    \/ Evidencing
SpecViews == Init /\ [][NextViews]_vars
\* The knowledge-graph page opened, left and opened again: it loads and
\* uploads text, and the continuations of the requests of the instances
\* that were left run at any later time.
NextKgVisits ==
    \/ KgMount
    \/ KgUnmount
    \/ KgOrphans
    \/ TextUploading
    \/ \E i \in 1..Len(pending) : UploadOk(i)
SpecKgVisits == Init /\ [][NextKgVisits]_vars
\* Both pages left: the knowledge-graph page loads its graph and is left for
\* the home page; the question page is opened, the first user asks, views
\* the evidence of an answer and leaves.  The continuations of the requests
\* of the instances that were left run at any later time.
NextLeave ==
    \/ \E i \in 1..Len(pending) : FetchUsersOk(i) \/ FetchSubgraphsOk(i) \/ FetchGraphOk(i)
    \/ KgUnmount
    \/ FirstUserAsking
    \/ \E i \in 1..Len(qaPending) :
          \E data \in {d \in SrvResponses : d.context.hasNodes} : SmartQaOk(i, data)
    \/ \E k \in 1..MaxMessages : OpenEvidence(k)
    \/ CloseEvidence
    \/ QaUnmount
    \/ Orphans
SpecLeave == Init /\ [][NextLeave]_vars
\* The question page opened, left and opened again, likewise.
NextQaVisits ==
    \/ QaUnmount
    \/ QaOrphans
    \/ FirstUserAsking
    \/ \E i \in 1..Len(qaPending) : \E data \in SrvResponses : SmartQaOk(i, data)
SpecQaVisits == Init /\ [][NextQaVisits]_vars
\* Uploads and questions of the first user with their failures, each page
\* used on its own.
\* Every HTTP request settles: the browser resolves or rejects each promise,
\* of the response and of its body, so the continuation of an upload or of a
\* question in flight is eventually run (weak fairness on the answers).
UploadSettles ==
    \E i \in 1..Len(pending) : UploadOk(i) \/ UploadFail(i)
QuestionSettles ==
    \E i \in 1..Len(qaPending) :
        \/ qaPending[i].kind = "qa" /\ \E ok \in BOOLEAN : QaResponseHeaders(i, ok)
        \/ \E data \in SrvResponses : SmartQaOk(i, data)
        \/ \E err \in {ErrQa, ErrNetwork} : SmartQaFail(i, err)
NextRetry ==
    \/ TextUploading
    \/ UploadSettles
    \/ FirstUserAsking
    \/ QuestionSettles
SpecRetryFair ==
    /\ Init /\ [][NextRetry]_vars
    /\ WF_vars(UploadSettles)
    /\ WF_vars(QuestionSettles)

\* ================================================================ claims
\* C1: last-issued-wins for graph loads: the response of a graph load that a
\* later-issued load has already superseded (the later one resolved first) is
\* discarded, i.e. it leaves the published snapshot as the later load set it.
C1_GraphLastIssuedWins ==
    [][(ev'.op = "graphOk" /\ ev'.req.stale) => graphData' = graphData]_vars

\* C2: engine identity survives data refreshes: a snapshot update that finds an
\* engine instance live leaves that same instance live.
C2_EngineIdentityKept ==
    [][(ev'.op \in {"graphOk", "deleteOk"} /\ networkRef # NoNet)
          => networkRef'.id = networkRef.id]_vars

\* C3: after any snapshot update the engine holds exactly the records of the
\* published snapshot: same counts, and record for record the rendering of
\* that snapshot's nodes and relationships, nothing of an earlier snapshot.
C3_EngineHoldsLatestSnapshot ==
    ~graphData.isNull =>
        /\ networkRef # NoNet
        /\ Len(networkRef.nodes) = Len(graphData.nodes)
        /\ Len(networkRef.edges) = Len(graphData.relationships)
        /\ networkRef.nodes = RenderNodes(graphData)
        /\ networkRef.edges = RenderEdges(graphData)

\* C3 witness: the graph of subgraph 2 is shown, loaded after another
\* snapshot had been given to the engine
C3_Witness ==
    /\ ev.op = "graphOk"
    /\ ev.req.sg = 2
    /\ engineSerial = 2
    /\ Len(graphData.nodes) = 1
    /\ networkRef.nodes[1].id = 21

\* C4: immediately after each change of the selected user the selected
\* subgraph is empty and the change issued no graph fetch.
C4_UserChangeResetsSelection ==
    ev.op = "selectUser" =>
        /\ selectedSubgraphId = 0
        /\ "graph" \notin Kinds(ev.issued)

\* C5 (as claimed): once the delete of the selected subgraph and the list
\* refresh it triggers have completed, the snapshot is empty and no subgraph is
\* selected, whatever the refreshed list holds.
C5_DeleteLeavesNothingSelected ==
    (ev.op = "listOk" /\ ev.req.cause = "delete") =>
        /\ selectedSubgraphId = 0
        /\ graphData = EmptyGraph

\* C5 (amended): the successful delete empties the published snapshot (and the
\* engine's records); when the list refresh it triggers has succeeded, no
\* subgraph is selected if the refreshed list is empty, and otherwise the first
\* subgraph of the refreshed list is selected, with a graph load issued for it.
C5_DeleteThenAutoSelect ==
    /\ ev.op = "deleteOk" =>
          /\ graphData = EmptyGraph
          /\ networkRef.nodes = <<>> /\ networkRef.edges = <<>>
          /\ Kinds(ev.issued) = {"list"}
    /\ (ev.op = "listOk" /\ ev.req.cause = "delete") =>
          IF subgraphs = <<>>
          THEN selectedSubgraphId = 0 /\ ev.issued = <<>>
          ELSE /\ selectedSubgraphId = subgraphs[1].id
               /\ \E k \in 1..Len(ev.issued) :
                     ev.issued[k] = GraphReq(selectedUserId, subgraphs[1].id)

\* C5 witness: the refresh after a delete found a subgraph left and selected it
C5_Witness ==
    /\ ev.op = "listOk" /\ ev.req.cause = "delete"
    /\ subgraphs # <<>>
    /\ selectedSubgraphId = subgraphs[1].id

\* C6: a successful edit replaces only the edited record (same position, the
\* others and the order unchanged), keeps the selection and issues no graph fetch.
C6_EditInPlaceNoFetch ==
    [][ev'.op = "editOk" =>
          /\ Len(subgraphs') = Len(subgraphs)
          /\ \A k \in 1..Len(subgraphs) :
                IF subgraphs[k].id = ev'.req.sg
                THEN subgraphs'[k].id = ev'.req.sg /\ subgraphs'[k].name = ev'.req.name
                ELSE subgraphs'[k] = subgraphs[k]
          /\ selectedSubgraphId' = selectedSubgraphId
          /\ "graph" \notin Kinds(ev'.issued)]_vars

\* C7: a rejected list, create, edit or delete request leaves the subgraph
\* list and the selected subgraph exactly as they were.
C7_FailureKeepsListAndSelection ==
    [][ev'.op \in {"listFail", "createFail", "editFail", "deleteFail"} =>
          /\ subgraphs' = subgraphs
          /\ selectedSubgraphId' = selectedSubgraphId]_vars

\* C7 witness: a create was rejected while a list was shown and a subgraph selected
C7_Witness ==
    /\ ev.op = "createFail"
    /\ subgraphs # <<>>
    /\ selectedSubgraphId # 0

\* C8: a subgraph-list response never replaces the list unless it answers the
\* latest list request issued, which is one for the currently selected user.
C8_ListLastIssuedWins ==
    ev.op = "listOk" => (ev.req.user = selectedUserId /\ ~ev.req.stale)

\* C9: a failed graph load leaves the published snapshot (and what the engine
\* shows) unchanged.
C9_FailedLoadKeepsSnapshot ==
    [][ev'.op = "graphFail" =>
          /\ graphData' = graphData
          /\ networkRef' = networkRef]_vars

\* C9 witness: a graph load failed while a loaded, non-empty snapshot was shown
C9_Witness ==
    /\ ev.op = "graphFail"
    /\ ~graphData.isNull
    /\ Len(graphData.nodes) >= 1

\* C10: every upload request in flight was submitted with a user and a
\* subgraph selected and with at least one file or non-blank text: a submit
\* without target or without input issues no request.
C10_UploadOnlyWithTargetAndInput ==
    /\ \A i \in 1..Len(pending) :
          pending[i].kind = "upload" =>
              /\ pending[i].user # 0
              /\ pending[i].sg # 0
              /\ (Len(pending[i].files) > 0 \/ Trim(pending[i].text) # <<>>)

\* C10 witness: an upload was submitted with text only, no file
C10_Witness ==
    /\ ev.op = "upload"
    /\ ev.issued[1].files = <<>>
    /\ Trim(ev.issued[1].text) # <<>>
    /\ uploading

\* the mutating subgraph requests in flight
Mutating == {i \in 1..Len(pending) : pending[i].kind \in {"create", "edit", "delete"}}
\* the upload requests in flight
Uploads == {i \in 1..Len(pending) : pending[i].kind = "upload"}
\* the turns in which the user changes the selection or deletes a subgraph
UserSelectionOps == {"selectUser", "selectSubgraph", "delete", "deleteOk"}

\* C12: a successful create appends the returned record at the end of the
\* list (earlier records kept, in order) and selects it; afterwards the list
\* still contains it and it stays selected as long as the user does not
\* change the selection.
C12_CreateAppendsAndStaysSelected ==
    [][/\ ev'.op = "createOk" =>
             /\ Len(subgraphs') = Len(subgraphs) + 1
             /\ \A k \in 1..Len(subgraphs) : subgraphs'[k] = subgraphs[k]
             /\ selectedSubgraphId' = subgraphs'[Len(subgraphs')].id
       /\ (ev.op = "createOk" /\ ev'.op \notin UserSelectionOps) =>
             /\ selectedSubgraphId' = selectedSubgraphId
             /\ \E k \in 1..Len(subgraphs') : subgraphs'[k].id = selectedSubgraphId]_vars

\* C13: when the list of the selected user has been fetched, then, if it is
\* not empty, its first subgraph is selected and a graph load for that user
\* and that subgraph has been issued; if it is empty nothing is selected and
\* no graph load is issued.
C13_AutoSelectFirst ==
    (ev.op = "listOk" /\ ev.req.user = selectedUserId) =>
        IF subgraphs # <<>>
        THEN /\ selectedSubgraphId = subgraphs[1].id
             /\ \E k \in 1..Len(ev.issued) :
                   /\ ev.issued[k].kind = "graph"
                   /\ ev.issued[k].user = ev.req.user
                   /\ ev.issued[k].sg = subgraphs[1].id
        ELSE /\ selectedSubgraphId = 0
             /\ "graph" \notin Kinds(ev.issued)

\* C13 witness: the list of the user chosen by hand arrived with two
\* subgraphs and the first one was selected and its graph requested
C13_Witness ==
    /\ ev.op = "listOk"
    /\ ev.req.cause = "user"
    /\ ev.req.user = selectedUserId
    /\ Len(subgraphs) = 2
    /\ selectedSubgraphId = subgraphs[1].id
    /\ Len(ev.issued) > 0
    /\ ev.issued[1].kind = "graph"

\* C14: at most one create, edit or delete request is in flight at any time.
C14_OneMutatingRequest == Cardinality(Mutating) <= 1

\* C15: at most one upload request is in flight at any time, and while one
\* is in flight the upload control is disabled.  (`uploading` belongs to the
\* page instance: an upload of an instance that was left is still in flight
\* when the page is opened again with `uploading` FALSE.)
C15_OneUploadInFlight ==
    /\ Cardinality(Uploads) <= 1
    /\ Uploads # {} => (uploading /\ UploadDisabled)

\* C16: a successful upload leaves no staged file and no text, and issues
\* one graph load, for the user and subgraph the upload was submitted with.
C16_UploadOkClearsAndReloadsTarget ==
    ev.op = "uploadOk" =>
        /\ files = <<>>
        /\ textInput = <<>>
        /\ Len(ev.issued) = 1
        /\ ev.issued[1].kind = "graph"
        /\ ev.issued[1].user = ev.req.user
        /\ ev.issued[1].sg = ev.req.sg

\* C16 witness: an upload of a file and text succeeded after the selection
\* had moved to another subgraph, and the graph of the submitted target was
\* reloaded
C16_Witness ==
    /\ ev.op = "uploadOk"
    /\ ev.req.sg # selectedSubgraphId
    /\ selectedSubgraphId # 0
    /\ Len(ev.req.files) > 0
    /\ Trim(ev.req.text) # <<>>
    /\ ev.issued[1].sg = ev.req.sg

\* C17 as stated: after a failed upload the staged files and text are those
\* the upload was submitted with, and no graph load is issued.
C17_FailedUploadKeepsSubmittedSet ==
    ev.op = "uploadFail" =>
        /\ files = ev.req.files
        /\ textInput = ev.req.text
        /\ ev.issued = <<>>

\* C17 amended: a failed upload changes neither the staged files nor the
\* text (they are what they were just before the failure arrived, edits made
\* while the upload was in flight included), issues no request and ends the
\* uploading state; if nothing was edited while the upload was in flight the
\* staged set is the submitted one.
C17_FailedUploadChangesNothingStaged ==
    [][ev'.op = "uploadFail" =>
          /\ files' = files
          /\ textInput' = textInput
          /\ ev'.issued = <<>>
          /\ ~uploading'
          /\ (files = ev'.req.files /\ textInput = ev'.req.text) =>
                (files' = ev'.req.files /\ textInput' = ev'.req.text)]_vars

\* C17 witness: an upload with a file and text failed and both are still staged
C17_Witness ==
    /\ ev.op = "uploadFail"
    /\ Len(files) > 0
    /\ files = ev.req.files
    /\ Trim(textInput) # <<>>
    /\ textInput = ev.req.text
    /\ ~UploadDisabled

\* C18: no create or edit request is ever issued with a name that is empty
\* after trimming, and while the typed name is blank the confirming button
\* is disabled.
C18_NoBlankNameRequest ==
    /\ \A i \in 1..Len(pending) :
          pending[i].kind \in {"create", "edit"} => Trim(pending[i].name) # <<>>
    /\ (showCreateSubgraph /\ Trim(newSubgraphName) = <<>>) => CreateDisabled
    /\ (showEditSubgraph /\ Trim(editSubgraphName) = <<>>) => SaveDisabled

\* C18 witness: a name of blanks only is typed in the open create dialog and
\* no create request is in flight
C18_Witness ==
    /\ ev.op = "typeNewName"
    /\ showCreateSubgraph
    /\ newSubgraphName # <<>>
    /\ Trim(newSubgraphName) = <<>>
    /\ selectedUserId # 0
    /\ \A i \in 1..Len(pending) : pending[i].kind # "create"

\* C11: a submit with no selected user, with no selected subgraph or with a
\* blank question sets the validation message, appends no message and
\* issues no request.
C11_InvalidSubmitRejected ==
    [][(qaEv'.op \in {"submit", "submitRejected"}
          /\ (selectedUser = 0 \/ selectedSubgraphs = <<>> \/ Trim(question) = <<>>))
        => /\ qaEv'.op = "submitRejected"
           /\ error' = ErrValidation
           /\ messages' = messages
           /\ qaPending' = qaPending
           /\ qaEv'.issued = <<>>]_vars

\* C11 witness: a question was submitted with a user selected but no
\* subgraph, and was rejected
C11_Witness ==
    /\ qaEv.op = "submitRejected"
    /\ error = ErrValidation
    /\ selectedUser # 0
    /\ selectedSubgraphs = <<>>
    /\ Trim(question) # <<>>
    /\ Len(messages) = 1

\* C19: the history of a QA request is the last min(5, n) of the n messages
\* the conversation had before the question was appended, oldest first, each
\* tagged user or assistant; the question itself is not in it.
C19_HistoryIsLastFive ==
    [][qaEv'.op = "submit" =>
          LET h == qaEv'.issued[1].history
              n == Len(messages)
              k == IF n < HistoryWindow THEN n ELSE HistoryWindow
          IN /\ Len(h) = k
             /\ Len(messages') = n + 1
             /\ \A i \in 1..k :
                   /\ h[i].content = messages[n - k + i].content
                   /\ h[i].role = IF messages[n - k + i].type = "user"
                                  THEN "user" ELSE "assistant"]_vars

\* C19 witness: a question was submitted when the conversation had more than
\* five messages; the history has five entries of both roles and begins
\* after the greeting
C19_Witness ==
    /\ qaEv.op = "submit"
    /\ Len(messages) > HistoryWindow + 1
    /\ Len(qaEv.issued[1].history) = HistoryWindow
    /\ qaEv.issued[1].history[1].content # Greeting.content
    /\ \E i, j \in 1..HistoryWindow :
          /\ qaEv.issued[1].history[i].role = "user"
          /\ qaEv.issued[1].history[j].role = "assistant"

\* C20: a valid submit appends the user message and clears the input in the
\* turn that issues the request, and the request carries the question and
\* the selected subgraphs (and user) of submit time; while the request is in
\* flight the user message is in the conversation and the payload is the
\* submitted one whatever is selected meanwhile.
C20_OptimisticAppendAndCapturedPayload ==
    [][/\ qaEv'.op = "submit" =>
             /\ messages' = Append(messages, UserMessage(question))
             /\ question' = <<>>
             /\ isLoading'
             /\ Len(qaPending') = Len(qaPending) + 1
             /\ qaPending'[Len(qaPending')] = qaEv'.issued[1]
             /\ qaEv'.issued[1].query = question
             /\ Trim(qaEv'.issued[1].query) # <<>>
             /\ qaEv'.issued[1].subgraph_ids = selectedSubgraphs
             /\ qaEv'.issued[1].user = selectedUser
       /\ \A i \in 1..Len(qaPending) :
             (qaPending[i].kind = "qa" /\ qaEv'.op \notin {"qaOk", "qaFail"}) =>
                 /\ \E j \in 1..Len(qaPending') :
                       [qaPending'[j] EXCEPT !.stage = "sent"]
                           = [qaPending[i] EXCEPT !.stage = "sent"]
                 /\ \E m \in 1..Len(messages') :
                       messages'[m] = UserMessage(qaPending[i].query)]_vars

\* C20 witness: while a question is in flight the subgraph selection was
\* changed; the request still carries the subgraphs of submit time, the
\* input is empty and the user message is the last of the conversation
C20_Witness ==
    /\ qaEv.op = "toggle"
    /\ question = <<>>
    /\ \E i \in 1..Len(qaPending) :
          /\ qaPending[i].kind = "qa"
          /\ qaPending[i].subgraph_ids # selectedSubgraphs
          /\ messages[Len(messages)] = UserMessage(qaPending[i].query)

\* C30: staging files appends the chosen files to the end of the staged list,
\* in the order chosen and duplicates kept; unstaging index i removes exactly
\* the i-th staged file and keeps the order of the others; the text input is
\* one value replaced by every edit; files and text never change each other.
C30_StagingAppendsRemovesReplaces ==
    [][/\ ev'.op = "addFiles" =>
            /\ Len(files') = Len(files) + Len(ev'.arg)
            /\ \A j \in 1..Len(files') :
                  files'[j] = IF j <= Len(files) THEN files[j]
                              ELSE ev'.arg[j - Len(files)]
            /\ textInput' = textInput
       /\ ev'.op = "removeFile" =>
            /\ Len(files') = Len(files) - 1
            /\ \A j \in 1..Len(files') :
                  files'[j] = IF j < ev'.arg[1] THEN files[j] ELSE files[j + 1]
            /\ textInput' = textInput
       /\ ev'.op = "typeText" => textInput' \in TextInputs /\ files' = files
      ]_vars

\* a file was unstaged from the front of a list of two different files, the
\* text being set: the other file is what stays
C30_Witness ==
    /\ ev.op = "removeFile" /\ ev.arg = <<1>>
    /\ files = <<"f2">>
    /\ textInput = <<"t">>

\* C21: a question-answering turn that fails (HTTP error or network failure)
\* appends no assistant message and sets a non-empty error; an error once
\* shown stays non-empty through every event other than the next turn that is
\* sent.
C21_FailedTurnSetsLastingError ==
    [][/\ qaEv'.op = "qaFail" => messages' = messages /\ error' # ""
       /\ (error # "" /\ qaEv'.op # "submit") => error' # ""
      ]_vars

\* the second turn of a conversation failed, the evidence of the first was
\* then opened and closed, and the error of the failed turn is still shown
C21_Witness ==
    /\ qaEv.op = "closeEvidence"
    /\ error = ErrQa /\ ~isLoading
    /\ Len(messages) = 4
    /\ messages[4].type = "user"

\* C22: a question-answering turn that succeeds appends exactly one message,
\* of the assistant, whose content is the answer of the response and whose
\* evidence is the node and relationship arrays of that same response; when
\* the evidence of a message is opened, an array the response did not carry
\* is shown as the empty array.
C22_AnswerCarriesItsEvidence ==
    [][/\ qaEv'.op = "qaOk" =>
            /\ Len(messages') = Len(messages) + 1
            /\ SubSeq(messages', 1, Len(messages)) = messages
            /\ messages'[Len(messages')].type = "ai"
            /\ messages'[Len(messages')].content = qaEv'.resp.answer
            /\ messages'[Len(messages')].context = qaEv'.resp.context
       /\ qaEv'.op = "openEvidence" =>
            LET c == messages[qaEv'.arg].context
            IN /\ evidenceData'.nodes = IF c.hasNodes THEN c.nodes ELSE <<>>
               /\ evidenceData'.relationships =
                      IF c.hasRelationships THEN c.relationships ELSE <<>>
      ]_vars

\* the evidence of an answer whose response carried relationships and no
\* `nodes` array has been opened
C22_Witness ==
    /\ qaEv.op = "openEvidence"
    /\ ~messages[qaEv.arg].context.hasNodes
    /\ evidenceData.nodes = <<>>
    /\ evidenceData.relationships = <<RelOf(2, 1)>>

\* C23: the message history only grows at its end: whatever happens (turns
\* sent, answered or failed, user changes, subgraph toggles, the evidence
\* view opened or closed), the history before is a prefix of the history
\* after.
C23_HistoryAppendOnly ==
    [][/\ Len(messages') >= Len(messages)
       /\ SubSeq(messages', 1, Len(messages)) = messages]_vars

\* the user was changed in a conversation that already holds an answered turn
C23_Witness ==
    /\ qaEv.op = "selectUser"
    /\ Len(messages) >= 3
    /\ messages[3].type = "ai"

\* C24: a change of the selected user leaves no subgraph selected and the
\* submit button disabled; the next event is never a turn being sent, and a
\* turn that is sent carries the selected user with a non-empty subgraph
\* selection.
C24_UserChangeResetsSubgraphs ==
    [][/\ qaEv'.op = "selectUser" => selectedSubgraphs' = <<>> /\ SubmitDisabled'
       /\ qaEv.op = "selectUser" => qaEv'.op # "submit"
       /\ qaEv'.op = "submit" =>
            /\ selectedSubgraphs # <<>>
            /\ qaEv'.issued[1].user = selectedUser
            /\ qaEv'.issued[1].subgraph_ids = selectedSubgraphs
      ]_vars

\* after a turn answered for user 1 the user was changed, and a submit with
\* a question typed was rejected for want of a selected subgraph
C24_Witness ==
    /\ qaEv.op = "submitRejected"
    /\ selectedUser = 2
    /\ Trim(question) # <<>>
    /\ selectedSubgraphs = <<>>
    /\ Len(messages) >= 3

\* C25: opening the evidence of a message constructs a new engine instance in
\* the modal, the only one live there, holding node for node and edge for
\* edge the evidence of that message; closing destroys it; while the modal
\* is closed no modal engine is live.
C25_EvidenceViewLifecycle ==
    [][/\ qaEv'.op = "openEvidence" =>
            LET c == messages[qaEv'.arg].context
                ns == IF c.hasNodes THEN c.nodes ELSE <<>>
                rs == IF c.hasRelationships THEN c.relationships ELSE <<>>
            IN /\ showEvidenceGraph'
               /\ modalNet' # NoNet /\ modalNet'.id # modalNet.id /\ modalLive' = 1
               /\ Len(modalNet'.nodes) = Len(ns)
               /\ \A i \in 1..Len(ns) : modalNet'.nodes[i].id = ns[i].id
               /\ Len(modalNet'.edges) = Len(rs)
               /\ \A i \in 1..Len(rs) :
                     /\ modalNet'.edges[i].from = rs[i].from
                     /\ modalNet'.edges[i].to = rs[i].to
                     /\ modalNet'.edges[i].label = rs[i].type
       /\ qaEv'.op = "closeEvidence" => ~showEvidenceGraph' /\ modalNet # NoNet
       /\ ~showEvidenceGraph' => modalNet' = NoNet /\ modalLive' = 0
      ]_vars

\* the evidence of the second answer is opened, in the second engine
\* instance of the modal
C25_Witness ==
    /\ qaEv.op = "openEvidence" /\ qaEv.arg = 5
    /\ modalNet.id = 2
    /\ Len(modalNet.edges) = 1

\* C26: in each container at most one engine instance is live, and it is
\* the one the page holds, so that every instance constructed is destroyed
\* before its replacement is constructed; leaving a page, like closing the
\* modal, leaves no instance live in its container.
C26_EnginesReleased ==
    [][/\ mainLive' = (IF networkRef' # NoNet THEN 1 ELSE 0)
       /\ modalLive' = (IF modalNet' # NoNet THEN 1 ELSE 0)
       /\ ev'.op = "unmount" => mainLive' = 0
       /\ qaEv'.op \in {"unmount", "closeEvidence"} => modalLive' = 0
      ]_vars

\* the knowledge-graph page was left after it had constructed an engine,
\* then the question page after its modal had constructed two: none is live
C26_Witness ==
    /\ route = "home"
    /\ qaEv.op = "unmount"
    /\ engineSerial >= 1 /\ modalSerial = 2
    /\ networkRef = NoNet /\ mainLive = 0
    /\ modalNet = NoNet /\ modalLive = 0

\* C27: without its container (the modal closed, whatever snapshot it is
\* given) or without a snapshot (the page before its first graph) no engine
\* is constructed; once both are there the engine holds the snapshot supplied
\* last.
C27_NoEngineWithoutContainer ==
    /\ ~showEvidenceGraph => modalNet = NoNet /\ modalLive = 0
    /\ showEvidenceGraph =>
          /\ modalNet # NoNet
          /\ Len(modalNet.nodes) = Len(evidenceData.nodes)
          /\ \A i \in 1..Len(evidenceData.nodes) :
                modalNet.nodes[i].id = evidenceData.nodes[i].id
          /\ Len(modalNet.edges) = Len(evidenceData.relationships)
    /\ graphData.isNull => networkRef = NoNet /\ mainLive = 0
    /\ ~graphData.isNull =>
          /\ networkRef # NoNet
          /\ Len(networkRef.nodes) = Len(graphData.nodes)
          /\ \A i \in 1..Len(graphData.nodes) :
                networkRef.nodes[i].id = graphData.nodes[i].id

\* the modal was closed and still receives the snapshot it showed
C27_Witness ==
    /\ qaEv.op = "closeEvidence"
    /\ ~showEvidenceGraph
    /\ Len(evidenceData.nodes) = 2
    /\ modalNet = NoNet

\* C29: both views draw one edge per relationship, in order, parallel
\* relationships included: the engine holds as many edges as the snapshot
\* has relationships.
C29_OneEdgePerRelationship ==
    /\ ~graphData.isNull =>
          /\ Len(networkRef.edges) = Len(graphData.relationships)
          /\ \A i \in 1..Len(graphData.relationships) :
                /\ networkRef.edges[i].from = graphData.relationships[i].from
                /\ networkRef.edges[i].to = graphData.relationships[i].to
                /\ networkRef.edges[i].label = graphData.relationships[i].type
    /\ showEvidenceGraph =>
          /\ Len(modalNet.edges) = Len(evidenceData.relationships)
          /\ \A i \in 1..Len(evidenceData.relationships) :
                /\ modalNet.edges[i].from = evidenceData.relationships[i].from
                /\ modalNet.edges[i].to = evidenceData.relationships[i].to
                /\ modalNet.edges[i].label = evidenceData.relationships[i].type

\* the evidence view shows two parallel relationships as two edges
C29_Witness ==
    /\ route = "qa"
    /\ showEvidenceGraph
    /\ Len(evidenceData.relationships) = 2
    /\ evidenceData.relationships[1] = evidenceData.relationships[2]
    /\ Len(modalNet.edges) = 2

\* C28: every failed request of either page ends in an error message shown to
\* the user: on the knowledge-graph page the turn of a failed request raises
\* an alert, on the question page it leaves `error` non-empty.
C28_FailuresShown ==
    /\ ev.op \in {"usersFail", "listFail", "graphFail", "createFail", "editFail",
                  "deleteFail", "uploadFail"} => Alert(ev.op) # ""
    /\ qaEv.op \in {"profilesFail", "listFail", "qaFail"} => error # ""

\* C31: whenever no request of the knowledge-graph page is in flight, the
\* published snapshot is absent, empty, or a snapshot of the selected
\* subgraph, which belongs to the selected user.
C31_QuiescentSnapshotIsSelected ==
    pending = <<>> =>
        \/ graphData.isNull
        \/ graphData.nodes = <<>> /\ graphData.relationships = <<>>
        \/ /\ selectedSubgraphId \in SrvIds
           /\ srvSubgraphs[SrvOwner(selectedSubgraphId)].user_id = selectedUserId
           /\ \E v \in 1..MaxVer : graphData = GraphOf(selectedSubgraphId, v)

\* C32: the selected subgraph is none or a record of the subgraph list that
\* belongs to the selected user, and every graph load, upload or delete
\* request in flight names a subgraph of the user it was issued for (an edit
\* request names a subgraph only).
C32_SelectionScopedToUser ==
    /\ \/ selectedSubgraphId = 0
       \/ \E k \in 1..Len(subgraphs) :
             /\ subgraphs[k].id = selectedSubgraphId
             /\ subgraphs[k].user_id = selectedUserId
    /\ \A i \in 1..Len(pending) :
          (pending[i].kind \in {"graph", "upload", "delete"}
             /\ pending[i].sg \in SrvIds)
          => srvSubgraphs[SrvOwner(pending[i].sg)].user_id = pending[i].user

\* C33: no turn issues a graph load, upload, edit or delete request for a
\* subgraph that the backend no longer holds, i.e. for a deleted subgraph,
\* whether the list refresh that follows the delete has answered or not.
C33_NoRequestForDeletedSubgraph ==
    [][\A k \in 1..Len(ev'.issued) :
          ev'.issued[k].kind \in {"graph", "upload", "edit", "delete"}
             => ev'.issued[k].sg \in SrvIds']_vars

\* C34: every question sent for a user carries only ids of subgraphs that
\* belong to that user.
C34_QaSubgraphsOfSelectedUser ==
    [][qaEv'.op = "submit" =>
          \A k \in 1..Len(qaEv'.issued[1].subgraph_ids) :
             LET sg == qaEv'.issued[1].subgraph_ids[k]
             IN sg \in SrvIds /\ srvSubgraphs[SrvOwner(sg)].user_id = qaEv'.issued[1].user
      ]_vars

\* C35: a successful upload removes from the staged input only what its
\* request carried: files staged after the submitted ones stay staged, and a
\* text edited since the submit stays as edited.
C35_UploadOkKeepsLaterInput ==
    [][ev'.op = "uploadOk" =>
          LET n == Len(ev'.req.files)
          IN /\ (Len(files) >= n /\ SubSeq(files, 1, n) = ev'.req.files)
                   => files' = SubSeq(files, n + 1, Len(files))
             /\ textInput # ev'.req.text => textInput' = textInput
      ]_vars

\* the question requests in flight
QaTurns == {i \in 1..Len(qaPending) : qaPending[i].kind = "qa"}

\* C36: at most one question is in flight; a question is sent, and its user
\* message appended, only while none is in flight; the answer of a turn is
\* appended directly after the user message of that turn.  (`isLoading`
\* belongs to the page instance: a question of an instance that was left is
\* still in flight when the page is opened again with `isLoading` FALSE.)
C36_TurnsDoNotInterleave ==
    [][/\ Cardinality(QaTurns') <= 1
       /\ qaEv'.op = "submit" => QaTurns = {} /\ ~isLoading
       /\ Len(messages') > Len(messages) /\ messages'[Len(messages')].type = "user"
             => qaEv'.op = "submit"
       /\ qaEv'.op = "qaOk" => messages[Len(messages)] = UserMessage(qaEv'.req.query)
      ]_vars

\* C37: the answer of a turn is labelled with the name of the user the
\* question was sent for, whoever is selected when the response arrives.
C37_AnswerLabelledWithTurnUser ==
    [][qaEv'.op = "qaOk" =>
          messages'[Len(messages')].senderName = <<"user", qaEv'.req.user>>]_vars

\* an answer arrived after the selected user had been changed
C37_Witness ==
    /\ qaEv.op = "qaOk"
    /\ qaEv.req.user = 1 /\ selectedUser = 2
    /\ messages[Len(messages)].senderName = <<"user", 1>>

\* C38: a turn that changes the selected subgraph to a subgraph issues exactly
\* one graph load, the one for the selected user and that subgraph.
C38_OneFetchPerSelection ==
    [][(selectedSubgraphId' # selectedSubgraphId /\ selectedSubgraphId' # 0) =>
          /\ Cardinality({k \in 1..Len(ev'.issued) : ev'.issued[k].kind = "graph"}) = 1
          /\ \E k \in 1..Len(ev'.issued) :
                ev'.issued[k] = GraphReq(selectedUserId', selectedSubgraphId')
      ]_vars

\* C39: the loading indicator is on exactly while a graph load is in flight.
C39_LoadingIffGraphLoadPending ==
    loading <=> \E i \in 1..Len(pending) : pending[i].kind = "graph"

\* C40: an upload in flight is followed by a state with `uploading` reset,
\* and a question in flight by a state with `isLoading` reset, whether the
\* request succeeds or fails.
C40_FlagsEventuallyReset ==
    /\ uploading ~> ~uploading
    /\ isLoading ~> ~isLoading

\* a second upload, sent after an earlier one succeeded, failed and left the
\* flag reset
C40_Witness ==
    /\ ev.op = "uploadFail"
    /\ ~uploading
    /\ srvVer[1] = 2

====
